---------------------------- MODULE Spec2Model ----------------------------
(***************************************************************************)
(* Model of rpendleton/battleship-rust: the board enumerator               *)
(* (src/bin/generator.rs, src/generator), the XOR-delta encoders           *)
(* (src/delta.rs, src/bin/encoder.rs), the decoding reader with its zstd   *)
(* magic sniff (src/core/reader.rs, src/lib.rs) and the filter/count       *)
(* aggregator (src/core/filter.rs, src/lib.rs).                            *)
(*                                                                         *)
(* A u128 is modelled as the set of its set bit positions (0..127): TLC's  *)
(* integers are 32 bits wide.  Bitwise AND, OR, XOR are intersection,      *)
(* union and symmetric difference.  Byte buffers are sequences of 0..255,  *)
(* and the conversions between the two are computed bit by bit.            *)
(***************************************************************************)
EXTENDS Integers, Sequences, FiniteSets, TLC

VARIABLES
    pc,             \* control position of the program being run
    input,          \* bytes the reader has not yet delivered
    output,         \* bytes written to the writer so far
    source,         \* the bytes the input held at the start (never changes)
    hit_mask,       \* filter argument hit_mask: u128
    miss_mask,      \* filter argument miss_mask: u128
    prev_record,    \* [u8; 16] accumulator of the loop (filter, delta.rs)
    first_record,   \* bool: no record processed yet
    counts,         \* Vec<u32> of 81 counters
    total_matched,  \* u64
    returned,       \* value the filter function returned: <<>> while it runs
    read_error,     \* the io::Error a failed read_exact produced, or "none"
    first_call,     \* value returned by an earlier call the present one is compared with
    result,         \* what the function returned: "none", "Ok", "Err"
    decoder,        \* DeltaDecodingReader { prev, first }
    yielded,        \* the u128 items the iterator has yielded, in order
    last_item,      \* last return of next(): "none", "Some(Ok)", "Some(Err)", "None"
    chunk,          \* locals of write_chunk: intersection, union, last_record, count, left
    chunks,         \* what each finished write_chunk call returned, in order
    constructor,    \* which reader constructor is run
    handed,         \* the bytes the constructed reader delivers to its consumer
    framing,        \* "none", "raw" or "zstd": how the input was classified
    board,          \* a BoardState driven through place_ship / set
    placed,         \* last return value of place_ship
    sym_board,      \* a Bitboard handed to is_canonical
    canonical,      \* what is_canonical returned for it (FALSE until it is called)
    masks,          \* the tables CommonMasks::new has pushed so far
    call_args,      \* arguments of a call of a BoardMask function or operator
    call_value,     \* <<name, value>> of the call made with them, <<>> before it
    stack,          \* active invocations of count_of_valid_endings, outermost first
    data,           \* Vec<u8> buffer of write_all_valid_boards
    written,        \* number of callback invocations so far
    saved,          \* hit masks the callback received, in order
    total_valid_count   \* value returned by the outermost invocation

ioVars == <<input, output, source>>
filterVars == <<hit_mask, miss_mask, counts, total_matched, returned, read_error,
                first_call>>
deltaVars == <<prev_record, first_record>>
readerVars == <<decoder, yielded, last_item>>
chunkVars == <<chunk, chunks>>
sniffVars == <<constructor, handed, framing>>
boardVars == <<board, placed>>
callVars == <<call_args, call_value>>
libVars == <<sym_board, canonical, masks, callVars>>
genVars == <<stack, data, written, saved, total_valid_count>>

vars == <<pc, result, ioVars, filterVars, deltaVars, readerVars, chunkVars,
          sniffVars, boardVars, libVars, genVars>>

---------------------------------------------------------------------------
(* Bounds of the model. *)

\* Longest input stream, in records.
MaxRecords == 3

\* Longest run of bytes that follows the last whole record of an input.
MaxTail == 1

\* Records per write_chunk call (main passes 500_000_000).
ChunkRecords == 2

\* Side of the square board the enumerator is run on (the program's is 9).
BOARD_SIZE == 5

\* Fleet of BoardState::EMPTY: ships of length 3 and of length 4 (the
\* program's fleet is 5 and 3).
THREE_COUNT == 1

FOUR_COUNT == 1

\* Buffered bytes at which write_all_valid_boards writes its buffer out (the
\* program's threshold is 4096).
\* Most bits set in a bitboard handed to is_canonical.
MaxBits == 3

\* Largest of the small shift amounts of the BoardMask shift operators.
MaxShift == 2

FLUSH_LEN == 32

---------------------------------------------------------------------------
(* Program constants. *)

RECORD_SIZE == 16

\* Number of cells the aggregator counts (the literal 81 of the bit loop).
BOARD_BITS == 81

\* validate_expected_counts reports row i / 9 and column i % 9.
HEATMAP_SIDE == 9

\* written * 100 / 213_723_152: the number of complete boards.
TOTAL_BOARDS == 213723152

\* (point.y * 9 + point.x): the side of the board a record of a file holds.
RECORD_BOARD_SIDE == 9

U128_BITS == 128

---------------------------------------------------------------------------
(* Bytes and u128 values. *)

Pow2(n) == 2 ^ n

\* (v >> b) & 1
BitOf(v, b) == (v \div Pow2(b)) % 2

RECURSIVE SumBits(_, _)
SumBits(f, n) == IF n = 0 THEN 0 ELSE SumBits(f, n - 1) + f[n - 1] * Pow2(n - 1)

\* a ^ b on u8
XorByte(a, b) == SumBits([i \in 0..7 |-> (BitOf(a, i) + BitOf(b, i)) % 2], 8)

\* u128::to_le_bytes: byte k (1-based) holds bits 8(k-1) .. 8(k-1)+7
to_le_bytes(m) ==
    [k \in 1..RECORD_SIZE |->
        SumBits([b \in 0..7 |-> IF (8 * (k - 1) + b) \in m THEN 1 ELSE 0], 8)]

\* u128::from_le_bytes
from_le_bytes(bytes) ==
    {i \in 0..(U128_BITS - 1) : BitOf(bytes[(i \div 8) + 1], i % 8) = 1}

ZeroRecord == [k \in 1..RECORD_SIZE |-> 0]

\* for i in 0..16 { out[i] = a[i] ^ b[i] }
XorRecord(a, b) == [k \in 1..RECORD_SIZE |-> XorByte(a[k], b[k])]

\* a ^ b on u128
XorMask(a, b) == (a \ b) \cup (b \ a)

RECURSIVE Concat(_)
Concat(ss) == IF ss = <<>> THEN <<>> ELSE Head(ss) \o Concat(Tail(ss))

\* The i-th 16-byte record of a byte sequence (1-based).
RecordAt(bytes, i) == SubSeq(bytes, RECORD_SIZE * (i - 1) + 1, RECORD_SIZE * i)

WholeRecords(bytes) == Len(bytes) \div RECORD_SIZE

\* Read::read_exact(&mut buf) on 16 bytes: TRUE when 16 bytes are available.
\* Otherwise the call fails with UnexpectedEof and the reader is drained.
CanReadRecord(bytes) == Len(bytes) >= RECORD_SIZE

RestAfterRecord(bytes) == SubSeq(bytes, RECORD_SIZE + 1, Len(bytes))

---------------------------------------------------------------------------
(* The decoding reader: DeltaDecodingReader::next applied until None.      *)

\* A reader that forgets the XOR with the previous record.
DecodedRecordNoXor(buf, prev, first) == buf

\* let decoded = if self.first { buf.clone() } else { buf ^ self.prev }
DecodedRecord(buf, prev, first) == IF first THEN buf ELSE XorRecord(buf, prev)

RECURSIVE DecodeFrom(_, _, _)
DecodeFrom(bytes, prev, first) ==
    IF ~CanReadRecord(bytes) THEN <<>>
    ELSE LET buf == SubSeq(bytes, 1, RECORD_SIZE)
             decoded == DecodedRecord(buf, prev, first)
         IN  <<from_le_bytes(decoded)>>
                 \o DecodeFrom(RestAfterRecord(bytes), decoded, FALSE)

\* The sequence of u128 values the reader yields for a byte stream.
DeltaDecode(bytes) == DecodeFrom(bytes, ZeroRecord, TRUE)

---------------------------------------------------------------------------
(* Input streams. *)

\* Record values the streams are made of.
RecordValues == {{}, {0}, {1}, {2}, {1, 80}}

HitMasks == {{}, {2}, {0}, {0, 1}}

MissMasks == {{}, {0}, {1}}

RECURSIVE SeqsUpTo(_, _)
SeqsUpTo(S, n) ==
    IF n = 0 THEN {<<>>}
    ELSE LET shorter == SeqsUpTo(S, n - 1)
         IN  shorter \cup {Append(s, x) : s \in {t \in shorter : Len(t) = n - 1}, x \in S}

TailBytes(n) == [k \in 1..n |-> 1]

\* Byte streams of up to MaxRecords records followed by up to MaxTail bytes.
ByteStreams ==
    {Concat([i \in 1..Len(s) |-> to_le_bytes(s[i])]) \o TailBytes(t) :
        s \in SeqsUpTo(RecordValues, MaxRecords), t \in 0..MaxTail}

---------------------------------------------------------------------------
(* Values of the variables a program does not use. *)

IdleFilter ==
    /\ hit_mask = {}
    /\ miss_mask = {}
    /\ counts = <<>>
    /\ total_matched = 0
    /\ returned = <<>>
    /\ read_error = "none"
    /\ first_call = <<>>

IdleDelta ==
    /\ prev_record = <<>>
    /\ first_record = TRUE

IdleReader ==
    /\ decoder = <<>>
    /\ yielded = <<>>
    /\ last_item = "none"

IdleChunk ==
    /\ chunk = <<>>
    /\ chunks = <<>>

IdleSniff ==
    /\ constructor = "none"
    /\ handed = <<>>
    /\ framing = "none"

IdleBoard ==
    /\ board = <<>>
    /\ placed = FALSE

IdleCall ==
    /\ call_args = <<>>
    /\ call_value = <<>>

IdleLib ==
    /\ sym_board = {}
    /\ canonical = FALSE
    /\ masks = <<>>
    /\ IdleCall

IdleGen ==
    /\ stack = <<>>
    /\ data = <<>>
    /\ written = 0
    /\ saved = <<>>
    /\ total_valid_count = 0

---------------------------------------------------------------------------
(* filter_and_count_reader *)

ZeroCounts == [bit \in 0..(BOARD_BITS - 1) |-> 0]

\* A filter that asks for one of the hit bits, not for all of them.
AcceptsAnyHit(raw, hit, miss) ==
    (hit = {} \/ (raw \cap hit) # {}) /\ (raw \cap miss) = {}

\* A filter that forgets the miss mask.
AcceptsHitOnly(raw, hit, miss) == (raw \cap hit) = hit

\* if (raw & hit_mask) != hit_mask { continue; }
\* if (raw & miss_mask) != 0 { continue; }
Accepts(raw, hit, miss) == (raw \cap hit) = hit /\ (raw \cap miss) = {}

\* for bit in 0..81 { if (rec[bit / 8] >> (bit % 8)) & 1 == 1 { counts[bit] += 1 } }
CountBits(cnt, rec) ==
    [bit \in 0..(BOARD_BITS - 1) |->
        cnt[bit] + (IF BitOf(rec[(bit \div 8) + 1], bit % 8) = 1 THEN 1 ELSE 0)]

\* The io::ErrorKind of a failed read_exact that is not UnexpectedEof
\* (read_exact retries Interrupted itself and never returns it).
IoErrors == {"Other", "PermissionDenied"}

\* A return that reports the end of the input as an error.
EofIsError(cnt, total) == <<"Err", "UnexpectedEof">>

\* Ok((counts, total_matched))
OkReturn(cnt, total) == <<"Ok", cnt, total>>

\* An error return that carries the tallies made so far.
ErrReturnWithTallies(e, cnt, total) == <<"Err", e, cnt, total>>

\* Err(e) => return Err(e)
ErrReturn(e, cnt, total) == <<"Err", e>>

FilterInit ==
    /\ pc = "filter_loop"
    /\ result = "none"
    /\ source \in ByteStreams
    /\ input = source
    /\ output = <<>>
    /\ hit_mask \in HitMasks
    /\ miss_mask \in MissMasks
    /\ prev_record = ZeroRecord
    /\ first_record = TRUE
    /\ counts = ZeroCounts
    /\ total_matched = 0
    /\ returned = <<>>
    /\ read_error = "none"
    /\ first_call = <<>>
    /\ IdleReader /\ IdleChunk /\ IdleSniff /\ IdleBoard /\ IdleLib /\ IdleGen

\* One iteration of the loop whose read_exact succeeds.
FilterRecord ==
    /\ pc = "filter_loop"
    /\ CanReadRecord(input)
    /\ LET buf == SubSeq(input, 1, RECORD_SIZE)
           current_record == IF first_record THEN buf ELSE XorRecord(buf, prev_record)
           raw == from_le_bytes(current_record)
       IN  /\ input' = RestAfterRecord(input)
           /\ first_record' = FALSE
           /\ IF Accepts(raw, hit_mask, miss_mask)
              THEN /\ total_matched' = total_matched + 1
                   /\ counts' = CountBits(counts, current_record)
                   /\ prev_record' = current_record
              ELSE \* continue: the end of the loop body is skipped
                   UNCHANGED <<total_matched, counts, prev_record>>
    /\ UNCHANGED <<pc, result, output, source, hit_mask, miss_mask>>
    /\ UNCHANGED <<returned, read_error, first_call>>
    /\ UNCHANGED <<readerVars, chunkVars, sniffVars, boardVars, libVars, genVars>>

\* read_exact fails with UnexpectedEof: break, then Ok((counts, total_matched)).
FilterEof ==
    /\ pc = "filter_loop"
    /\ ~CanReadRecord(input)
    /\ input' = <<>>
    /\ pc' = "filter_done"
    /\ result' = "Ok"
    /\ returned' = OkReturn(counts, total_matched)
    /\ UNCHANGED <<output, source, deltaVars>>
    /\ UNCHANGED <<hit_mask, miss_mask, counts, total_matched, read_error, first_call>>
    /\ UNCHANGED <<readerVars, chunkVars, sniffVars, boardVars, libVars, genVars>>

\* read_exact fails with another error: return Err(e).
FilterIoError ==
    /\ pc = "filter_loop"
    /\ pc' = "filter_done"
    /\ result' = "Err"
    /\ \E e \in IoErrors :
           /\ read_error' = e
           /\ returned' = ErrReturn(e, counts, total_matched)
    /\ UNCHANGED <<ioVars, deltaVars>>
    /\ UNCHANGED <<hit_mask, miss_mask, counts, total_matched, first_call>>
    /\ UNCHANGED <<readerVars, chunkVars, sniffVars, boardVars, libVars, genVars>>

FilterNext == FilterRecord \/ FilterEof \/ FilterIoError

FilterSpec == FilterInit /\ [][FilterNext]_vars

\* Indices of the records of a logical stream that a filter accepts.
Accepted(logical, hit, miss) ==
    {i \in 1..Len(logical) : Accepts(logical[i], hit, miss)}

\* C1: when filter_and_count_reader returns Ok, total_matched is the number of
\* records of the fully delta-decoded input that pass the filter, and counts[i]
\* is the number of those accepted records with bit i set; rejected records
\* still take part in the decoding of the records after them.
C1_FilterCountsLogicalStream ==
    (pc = "filter_done" /\ result = "Ok") =>
        LET logical == DeltaDecode(source)
            acc == Accepted(logical, hit_mask, miss_mask)
        IN  /\ total_matched = Cardinality(acc)
            /\ \A bit \in 0..(BOARD_BITS - 1) :
                   counts[bit] = Cardinality({i \in acc : bit \in logical[i]})

\* C16: with a mask conflict (hit_mask & miss_mask != 0) the function returns
\* matched = 0 and 81 zero counts, whatever the input stream.
C16_MaskConflict ==
    (pc = "filter_done" /\ result = "Ok" /\ (hit_mask \cap miss_mask) # {}) =>
        returned = OkReturn(ZeroCounts, 0)

\* A run with conflicting masks over a stream that holds a record with all the
\* hit bits set.
C16_Witness ==
    /\ pc = "filter_done"
    /\ result = "Ok"
    /\ (hit_mask \cap miss_mask) # {}
    /\ \E i \in 1..WholeRecords(source) : hit_mask \subseteq DeltaDecode(source)[i]

\* C17: when a read fails with an error other than UnexpectedEof, after any
\* number of records, the function returns that very error and nothing else:
\* the tallies made so far are not part of what it returns.
C17_ErrorDiscardsTallies ==
    (pc = "filter_done" /\ result = "Err") => returned = <<"Err", read_error>>

\* A read failed after records had been matched and counted.
C17_Witness ==
    /\ pc = "filter_done"
    /\ result = "Err"
    /\ read_error \in IoErrors
    /\ total_matched >= 2
    /\ counts # ZeroCounts

---------------------------------------------------------------------------
(* The delta encoder (delta.rs) and the decoding reader (core/reader.rs).  *)

\* if first_record { buffer } else { buffer ^ prev_record }
EncodedRecord(buffer, prev, first) ==
    IF first THEN buffer ELSE XorRecord(buffer, prev)

RECURSIVE EncodeFrom(_, _, _)
EncodeFrom(bytes, prev, first) ==
    IF ~CanReadRecord(bytes) THEN <<>>
    ELSE LET buffer == SubSeq(bytes, 1, RECORD_SIZE)
         IN  EncodedRecord(buffer, prev, first)
                 \o EncodeFrom(RestAfterRecord(bytes), buffer, FALSE)

\* The bytes delta.rs writes for an input.
DeltaEncode(bytes) == EncodeFrom(bytes, ZeroRecord, TRUE)

\* DeltaDecodingReader::new
NewDecoder == [prev |-> ZeroRecord, first |-> TRUE]

CodecInit ==
    /\ pc = "encode"
    /\ result = "none"
    /\ source \in ByteStreams
    /\ input = source
    /\ output = <<>>
    /\ prev_record = ZeroRecord
    /\ first_record = TRUE
    /\ IdleFilter /\ IdleReader /\ IdleChunk /\ IdleSniff /\ IdleBoard /\ IdleLib /\ IdleGen

\* delta.rs main: one iteration of the loop whose read_exact succeeds.
EncodeRecord ==
    /\ pc = "encode"
    /\ CanReadRecord(input)
    /\ LET buffer == SubSeq(input, 1, RECORD_SIZE)
       IN  /\ output' = output \o EncodedRecord(buffer, prev_record, first_record)
           /\ first_record' = FALSE
           /\ prev_record' = buffer
           /\ input' = RestAfterRecord(input)
    /\ UNCHANGED <<pc, result, source>>
    /\ UNCHANGED <<filterVars, readerVars, chunkVars, sniffVars, boardVars, libVars, genVars>>

\* delta.rs main: UnexpectedEof, break, flush, Ok(()).
EncodeEof ==
    /\ pc = "encode"
    /\ ~CanReadRecord(input)
    /\ input' = <<>>
    /\ pc' = "encoded"
    /\ result' = "Ok"
    /\ UNCHANGED <<output, source, deltaVars>>
    /\ UNCHANGED <<filterVars, readerVars, chunkVars, sniffVars, boardVars, libVars, genVars>>

\* delta.rs main: a read or write fails with another error, return Err(e).
EncodeIoError ==
    /\ pc = "encode"
    /\ pc' = "encode_failed"
    /\ result' = "Err"
    /\ UNCHANGED <<ioVars, deltaVars>>
    /\ UNCHANGED <<filterVars, readerVars, chunkVars, sniffVars, boardVars, libVars, genVars>>

\* DeltaDecodingReader::new over a reader of the bytes the encoder wrote.
OpenReader ==
    /\ pc = "encoded"
    /\ pc' = "decode"
    /\ input' = output
    /\ decoder' = NewDecoder
    /\ UNCHANGED <<result, output, source, yielded, last_item, deltaVars>>
    /\ UNCHANGED <<filterVars, chunkVars, sniffVars, boardVars, libVars, genVars>>

\* DeltaDecodingReader::next, read_exact Ok: Some(Ok(u128)).
ReaderNext ==
    /\ pc = "decode"
    /\ CanReadRecord(input)
    /\ LET buf == SubSeq(input, 1, RECORD_SIZE)
           decoded == DecodedRecord(buf, decoder.prev, decoder.first)
       IN  /\ decoder' = [prev |-> decoded, first |-> FALSE]
           /\ yielded' = Append(yielded, from_le_bytes(decoded))
           /\ last_item' = "Some(Ok)"
           /\ input' = RestAfterRecord(input)
    /\ UNCHANGED <<pc, result, output, source, deltaVars>>
    /\ UNCHANGED <<filterVars, chunkVars, sniffVars, boardVars, libVars, genVars>>

\* DeltaDecodingReader::next, read_exact fails with UnexpectedEof: None.
ReaderEnd ==
    /\ pc = "decode"
    /\ ~CanReadRecord(input)
    /\ input' = <<>>
    /\ last_item' = "None"
    /\ pc' = "reader_done"
    /\ UNCHANGED <<result, output, source, decoder, yielded, deltaVars>>
    /\ UNCHANGED <<filterVars, chunkVars, sniffVars, boardVars, libVars, genVars>>

\* DeltaDecodingReader::next, read_exact fails with another error: Some(Err(e)).
ReaderIoError ==
    /\ pc = "decode"
    /\ last_item' = "Some(Err)"
    /\ pc' = "reader_done"
    /\ UNCHANGED <<result, ioVars, decoder, yielded, deltaVars>>
    /\ UNCHANGED <<filterVars, chunkVars, sniffVars, boardVars, libVars, genVars>>

ReaderSteps == ReaderNext \/ ReaderEnd \/ ReaderIoError

CodecNext ==
    EncodeRecord \/ EncodeEof \/ EncodeIoError \/ OpenReader \/ ReaderSteps

\* delta.rs piped into DeltaDecodingReader.
CodecSpec == CodecInit /\ [][CodecNext]_vars

ReaderInit ==
    /\ pc = "decode"
    /\ result = "none"
    /\ source \in ByteStreams
    /\ input = source
    /\ output = <<>>
    /\ decoder = NewDecoder
    /\ yielded = <<>>
    /\ last_item = "none"
    /\ IdleFilter /\ IdleDelta /\ IdleChunk /\ IdleSniff /\ IdleBoard /\ IdleLib /\ IdleGen

\* DeltaDecodingReader over an arbitrary byte stream.
ReaderSpec == ReaderInit /\ [][ReaderSteps]_vars

\* The whole 16-byte records of a byte sequence, as u128 values.
RecordsOf(bytes) ==
    [i \in 1..WholeRecords(bytes) |-> from_le_bytes(RecordAt(bytes, i))]

\* C4: once the reader has reached the end of the encoder's output, the items
\* it yielded are exactly the records of the encoder's input, in order.
C4_DeltaRoundTrip ==
    (pc = "reader_done" /\ last_item = "None") => yielded = RecordsOf(source)

\* A round trip of three different records, none of them zero.
C4_Witness ==
    /\ pc = "reader_done"
    /\ last_item = "None"
    /\ Len(yielded) = 3
    /\ yielded[1] # yielded[2] /\ yielded[2] # yielded[3]
    /\ \A i \in 1..3 : yielded[i] # {}

\* C6: when the input ends inside a 16-byte record, the reader's last item is
\* an error, never a clean end of stream.
C6_TruncationIsError ==
    (pc = "reader_done" /\ Len(source) % RECORD_SIZE # 0) => last_item = "Some(Err)"

---------------------------------------------------------------------------
(* filter_and_count_reader_raw (lib.rs), and calls of the filter functions *)
(* whose returned values are compared.                                     *)

\* Raw streams of whole boards.
BoardStreams == {b \in ByteStreams : Len(b) % RECORD_SIZE = 0}

\* filter_and_count_reader_raw(Cursor::new(raw_data), hit_mask, miss_mask)
RawInit ==
    /\ pc = "raw_loop"
    /\ result = "none"
    /\ source \in BoardStreams
    /\ input = source
    /\ output = <<>>
    /\ hit_mask \in HitMasks
    /\ miss_mask \in MissMasks
    /\ counts = ZeroCounts
    /\ total_matched = 0
    /\ returned = <<>>
    /\ read_error = "none"
    /\ first_call = <<>>
    /\ IdleDelta /\ IdleReader /\ IdleChunk /\ IdleSniff /\ IdleBoard /\ IdleLib /\ IdleGen

RawFrame ==
    /\ UNCHANGED <<output, source, hit_mask, miss_mask, first_call, deltaVars>>
    /\ UNCHANGED <<readerVars, chunkVars, sniffVars, boardVars, libVars, genVars>>

\* One iteration of the raw loop whose read_exact succeeds.
RawRecord ==
    /\ pc = "raw_loop"
    /\ CanReadRecord(input)
    /\ LET buf == SubSeq(input, 1, RECORD_SIZE)
           raw == from_le_bytes(buf)
       IN  /\ input' = RestAfterRecord(input)
           /\ IF Accepts(raw, hit_mask, miss_mask)
              THEN /\ total_matched' = total_matched + 1
                   /\ counts' = CountBits(counts, buf)
              ELSE UNCHANGED <<total_matched, counts>>
    /\ UNCHANGED <<pc, result, returned, read_error>>
    /\ RawFrame

\* read_exact fails with UnexpectedEof: break, then Ok((counts, total_matched)).
RawEof ==
    /\ pc = "raw_loop"
    /\ ~CanReadRecord(input)
    /\ input' = <<>>
    /\ pc' = "raw_done"
    /\ result' = "Ok"
    /\ returned' = OkReturn(counts, total_matched)
    /\ UNCHANGED <<counts, total_matched, read_error>>
    /\ RawFrame

\* read_exact fails with another error: return Err(e).
RawIoError ==
    /\ pc = "raw_loop"
    /\ pc' = "raw_done"
    /\ result' = "Err"
    /\ \E e \in IoErrors :
           /\ read_error' = e
           /\ returned' = ErrReturn(e, counts, total_matched)
    /\ UNCHANGED <<input, counts, total_matched>>
    /\ RawFrame

\* A further call filter_and_count_reader(Cursor::new(bytes), hit, miss) made
\* after a call that returned Ok; the earlier call's value is kept.
CallFilterAfter(done, bytes, hit, miss) ==
    /\ pc = done
    /\ result = "Ok"
    /\ first_call = <<>>
    /\ first_call' = returned
    /\ pc' = "filter_loop"
    /\ result' = "none"
    /\ returned' = <<>>
    /\ input' = bytes
    /\ hit_mask' = hit
    /\ miss_mask' = miss
    /\ counts' = ZeroCounts
    /\ total_matched' = 0
    /\ prev_record' = ZeroRecord
    /\ first_record' = TRUE
    /\ UNCHANGED <<output, source, read_error>>
    /\ UNCHANGED <<readerVars, chunkVars, sniffVars, boardVars, libVars, genVars>>

\* The boards are delta-encoded and handed to filter_and_count_reader with
\* the masks of the raw call.
FilterOnDelta ==
    CallFilterAfter("raw_done", DeltaEncode(source), hit_mask, miss_mask)

RawDeltaNext ==
    RawRecord \/ RawEof \/ RawIoError \/ FilterOnDelta \/ FilterNext

\* The same boards through filter_and_count_reader_raw, then delta-encoded
\* through filter_and_count_reader.
RawDeltaSpec == RawInit /\ [][RawDeltaNext]_vars

\* C13: for any boards and masks, filter_and_count_reader on the XOR-delta
\* encoding of the boards returns the matched total and the 81 counts that
\* filter_and_count_reader_raw returned on their raw concatenation.
C13_RawEqualsDelta ==
    (pc = "filter_done" /\ result = "Ok") => returned = first_call

\* filter_and_count_reader(Cursor::new(data), hit_mask, miss_mask) on a stream
\* of whole records.
CompareInit ==
    /\ FilterInit
    /\ source \in BoardStreams

\* The same input stream is filtered again with masks that have the bits of
\* the first call's masks and possibly more.
FilterWithMoreBits ==
    \E hit \in HitMasks, miss \in MissMasks :
        /\ hit_mask \subseteq hit
        /\ miss_mask \subseteq miss
        /\ CallFilterAfter("filter_done", source, hit, miss)

MonotoneNext == FilterNext \/ FilterWithMoreBits

\* Two calls of filter_and_count_reader on one stream, the second with masks
\* that include the first's.
MonotoneSpec == CompareInit /\ [][MonotoneNext]_vars

\* C14: on the same input stream, masks with more bits never match more
\* records: the second call's matched total is at most the first's.
C14_Monotone ==
    (pc = "filter_done" /\ result = "Ok" /\ first_call # <<>>) =>
        returned[3] <= first_call[3]

\* The second call had strictly more mask bits and matched some records, but
\* fewer than the first.
C14_Witness ==
    /\ pc = "filter_done"
    /\ result = "Ok"
    /\ first_call # <<>>
    /\ returned[3] > 0
    /\ returned[3] < first_call[3]

\* The records of the logical stream that satisfy the masks, in order.
Selected(logical, hit, miss) ==
    SelectSeq(logical, LAMBDA b : (b \cap hit) = hit /\ (b \cap miss) = {})

\* The XOR-delta encoding of a sequence of boards.
DeltaEncodeBoards(logical) ==
    DeltaEncode(Concat([i \in 1..Len(logical) |-> to_le_bytes(logical[i])]))

\* The selected records of the logical stream are delta-encoded and filtered
\* with masks (0, 0).
FilterSelection ==
    CallFilterAfter("filter_done",
                    DeltaEncodeBoards(Selected(DeltaDecode(source), hit_mask, miss_mask)),
                    {}, {})

IdempotentNext == FilterNext \/ FilterSelection

\* filter_and_count_reader on a delta-encoded stream with masks (h, m), then
\* with masks (0, 0) on the delta encoding of the records that satisfy (h, m).
IdempotentSpec == CompareInit /\ [][IdempotentNext]_vars

\* C15: the filter on a stream with masks (h, m) returns the counts and the
\* matched total that the filter with masks (0, 0) returns on the stream of
\* the records that satisfy (h, m).
C15_Idempotent ==
    (pc = "filter_done" /\ result = "Ok" /\ first_call # <<>>) =>
        returned = first_call

---------------------------------------------------------------------------
(* The chunked encoder (bin/encoder.rs). *)

AllBits == 0..(U128_BITS - 1)

\* The locals of write_chunk at its start.
NewChunk ==
    [intersection |-> AllBits, union |-> {}, last_record |-> {},
     count |-> 0, left |-> ChunkRecords]

ChunkInit ==
    /\ pc = "main_loop"
    /\ result = "none"
    /\ source \in ByteStreams
    /\ input = source
    /\ output = <<>>
    /\ chunk = <<>>
    /\ chunks = <<>>
    /\ IdleFilter /\ IdleDelta /\ IdleReader /\ IdleSniff /\ IdleBoard /\ IdleLib /\ IdleGen

\* main calls write_chunk(&mut reader, &mut writer, max_records).
ChunkBegin ==
    /\ pc = "main_loop"
    /\ pc' = "in_chunk"
    /\ chunk' = NewChunk
    /\ UNCHANGED <<result, ioVars, chunks>>
    /\ UNCHANGED <<filterVars, deltaVars, readerVars, sniffVars, boardVars, libVars, genVars>>

\* write_chunk: one iteration of the for loop whose read_exact succeeds.
ChunkRecord ==
    /\ pc = "in_chunk"
    /\ chunk.left > 0
    /\ CanReadRecord(input)
    /\ LET record_value == from_le_bytes(SubSeq(input, 1, RECORD_SIZE))
           delta == XorMask(record_value, chunk.last_record)
       IN  /\ chunk' = [intersection |-> chunk.intersection \cap record_value,
                        union |-> chunk.union \cup record_value,
                        last_record |-> record_value,
                        count |-> chunk.count + 1,
                        left |-> chunk.left - 1]
           /\ output' = output \o to_le_bytes(delta)
           /\ input' = RestAfterRecord(input)
    /\ UNCHANGED <<pc, result, source, chunks>>
    /\ UNCHANGED <<filterVars, deltaVars, readerVars, sniffVars, boardVars, libVars, genVars>>

\* write_chunk leaves its loop (max_records reached, or UnexpectedEof), flushes
\* and returns Ok((count, union, intersection)).
ChunkReturns ==
    /\ pc = "in_chunk"
    /\ chunk.left = 0 \/ ~CanReadRecord(input)
    /\ input' = IF chunk.left > 0 THEN <<>> ELSE input
    /\ chunks' = Append(chunks, <<chunk.count, chunk.union, chunk.intersection>>)

\* main: count > 0, report the chunk and loop.
ChunkReported ==
    /\ ChunkReturns
    /\ chunk.count > 0
    /\ pc' = "main_loop"
    /\ UNCHANGED <<result, output, source, chunk>>
    /\ UNCHANGED <<filterVars, deltaVars, readerVars, sniffVars, boardVars, libVars, genVars>>

\* main: count == 0, break, flush, Ok(()).
ChunkLast ==
    /\ ChunkReturns
    /\ chunk.count = 0
    /\ pc' = "chunks_done"
    /\ result' = "Ok"
    /\ UNCHANGED <<output, source, chunk>>
    /\ UNCHANGED <<filterVars, deltaVars, readerVars, sniffVars, boardVars, libVars, genVars>>

\* write_chunk returns Err(e) and main returns it.
ChunkIoError ==
    /\ pc = "in_chunk"
    /\ pc' = "chunks_failed"
    /\ result' = "Err"
    /\ UNCHANGED <<ioVars, chunkVars>>
    /\ UNCHANGED <<filterVars, deltaVars, readerVars, sniffVars, boardVars, libVars, genVars>>

ChunkNext ==
    ChunkBegin \/ ChunkRecord \/ ChunkReported \/ ChunkLast \/ ChunkIoError

ChunkSpec == ChunkInit /\ [][ChunkNext]_vars

\* C5: the chunks do not reset the delta accumulator: what the encoder tool
\* has written at its end is the XOR-delta of the whole input stream.
C5_ChunksKeepAccumulator ==
    pc = "chunks_done" => output = DeltaEncode(source)

---------------------------------------------------------------------------
(* The zstd magic sniff of the reader constructors.                        *)

\* A magic number that is the low four bytes of a board with a ship on the
\* cells 0, 1, 2 and no other ship on the cells up to 31.
MAGIC_OF_A_SHIP == <<7, 0, 0, 0>>

\* const ZSTD_MAGIC: [u8; 4] = [0x28, 0xB5, 0x2F, 0xFD]
ZSTD_MAGIC == <<40, 181, 47, 253>>

MAGIC_LEN == 4

\* read_exact(&mut magic) succeeds when four bytes are available.
CanReadMagic(bytes) == Len(bytes) >= MAGIC_LEN

\* What is left in a reader after read_exact(&mut magic) returned Ok.
RestAfterMagic(bytes) == SubSeq(bytes, MAGIC_LEN + 1, Len(bytes))

\* std::io::Cursor::new(magic).chain(reader)
Chain(magic, rest) == magic \o rest

Constructors == {"create_reader_with_compression", "create_stdin_reader",
                 "create_reader_with_magic_detection"}

\* Raw streams, streams that start with the zstd magic, and short streams.
SniffStreams ==
    ByteStreams
        \cup {ZSTD_MAGIC \o b : b \in {t \in ByteStreams : Len(t) <= RECORD_SIZE + MaxTail}}
        \cup {TailBytes(n) : n \in 0..(MAGIC_LEN - 1)}

SniffInit ==
    /\ pc = "sniff"
    /\ result = "none"
    /\ source \in SniffStreams
    /\ input = source
    /\ output = <<>>
    /\ constructor \in Constructors
    /\ handed = <<>>
    /\ framing = "none"
    /\ IdleFilter /\ IdleDelta /\ IdleReader /\ IdleChunk /\ IdleBoard /\ IdleLib /\ IdleGen

SniffFrame ==
    /\ pc' = "sniffed"
    /\ result' = "Ok"
    /\ input' = handed'
    /\ UNCHANGED <<output, source, constructor>>
    /\ UNCHANGED <<filterVars, deltaVars, readerVars, chunkVars, boardVars, libVars, genVars>>

\* lib.rs create_reader_with_compression: the magic is read from a first reader
\* made by reader_factory, and every branch then asks the factory for a fresh
\* reader (for a file: File::open again, positioned at offset 0).
CreateReaderWithCompression ==
    /\ pc = "sniff"
    /\ constructor = "create_reader_with_compression"
    /\ LET peek_reader == source
           fresh_reader == source
       IN  IF CanReadMagic(peek_reader)
           THEN LET magic == SubSeq(peek_reader, 1, MAGIC_LEN)
                IN  IF magic = ZSTD_MAGIC
                    THEN /\ framing' = "zstd"
                         /\ handed' = fresh_reader
                    ELSE /\ framing' = "raw"
                         /\ handed' = Chain(magic, fresh_reader)
           ELSE /\ framing' = "raw"
                /\ handed' = fresh_reader
    /\ SniffFrame

\* lib.rs create_stdin_reader: the magic is read from stdin and chained back in
\* front of what stdin still holds.
CreateStdinReader ==
    /\ pc = "sniff"
    /\ constructor = "create_stdin_reader"
    /\ IF CanReadMagic(input)
       THEN LET magic == SubSeq(input, 1, MAGIC_LEN)
                stdin == RestAfterMagic(input)
            IN  /\ framing' = IF magic = ZSTD_MAGIC THEN "zstd" ELSE "raw"
                /\ handed' = Chain(magic, stdin)
       ELSE \* UnexpectedEof: the short input was consumed by read_exact
            /\ framing' = "raw"
            /\ handed' = <<>>
    /\ SniffFrame

\* core/reader.rs create_reader_with_magic_detection: as above, for any reader.
CreateReaderWithMagicDetection ==
    /\ pc = "sniff"
    /\ constructor = "create_reader_with_magic_detection"
    /\ IF CanReadMagic(input)
       THEN LET magic == SubSeq(input, 1, MAGIC_LEN)
                reader == RestAfterMagic(input)
            IN  /\ framing' = IF magic = ZSTD_MAGIC THEN "zstd" ELSE "raw"
                /\ handed' = Chain(magic, reader)
       ELSE /\ framing' = "raw"
            /\ handed' = <<>>
    /\ SniffFrame

\* Opening the input or reading the magic fails with an error other than
\* UnexpectedEof: the constructor returns Err(e).
SniffIoError ==
    /\ pc = "sniff"
    /\ pc' = "sniff_failed"
    /\ result' = "Err"
    /\ UNCHANGED <<ioVars, sniffVars>>
    /\ UNCHANGED <<filterVars, deltaVars, readerVars, chunkVars, boardVars, libVars, genVars>>

SniffNext ==
    \/ CreateReaderWithCompression
    \/ CreateStdinReader
    \/ CreateReaderWithMagicDetection
    \/ SniffIoError

SniffSpec == SniffInit /\ [][SniffNext]_vars

\* C7: for an input of at least four bytes that does not start with the zstd
\* magic, the bytes the constructed reader hands to the record reader are
\* exactly the input, whichever constructor built it.
C7_SniffNonDestructive ==
    (pc = "sniffed" /\ CanReadMagic(source)
        /\ SubSeq(source, 1, MAGIC_LEN) # ZSTD_MAGIC) => handed = source

---------------------------------------------------------------------------
(* filter_and_count: a reader constructor, then filter_and_count_reader.   *)

\* Inputs shorter than the magic, and raw streams of at most two records.
ShortStreams ==
    {TailBytes(n) : n \in 0..(MAGIC_LEN - 1)}
        \cup {SubSeq(ZSTD_MAGIC, 1, n) : n \in 0..(MAGIC_LEN - 1)}

ProbeStreams == ShortStreams \cup {b \in ByteStreams : Len(b) <= 2 * RECORD_SIZE}

\* filter_and_count(path, hit_mask, miss_mask); the constructor stands for
\* the path ("-" or a file) and for the module (lib.rs or core/).
FilterAndCountInit ==
    /\ pc = "sniff"
    /\ result = "none"
    /\ source \in ProbeStreams
    /\ input = source
    /\ output = <<>>
    /\ constructor \in Constructors
    /\ handed = <<>>
    /\ framing = "none"
    /\ hit_mask \in HitMasks
    /\ miss_mask \in MissMasks
    /\ counts = <<>>
    /\ total_matched = 0
    /\ returned = <<>>
    /\ read_error = "none"
    /\ first_call = <<>>
    /\ IdleDelta /\ IdleReader /\ IdleChunk /\ IdleBoard /\ IdleLib /\ IdleGen

\* create_stdin_reader()? / create_file_reader(path)? returns Err(e): opening
\* the input or reading the magic failed with an error other than
\* UnexpectedEof, and filter_and_count returns that error.
ConstructorFails ==
    /\ pc = "sniff"
    /\ pc' = "filter_done"
    /\ result' = "Err"
    /\ \E e \in IoErrors :
           /\ read_error' = e
           /\ returned' = <<"Err", e>>
    /\ UNCHANGED <<ioVars, sniffVars, deltaVars>>
    /\ UNCHANGED <<hit_mask, miss_mask, counts, total_matched, first_call>>
    /\ UNCHANGED <<readerVars, chunkVars, boardVars, libVars, genVars>>

\* filter_and_count_reader(reader, hit_mask, miss_mask) on the reader the
\* constructor returned.
FilterOnReader ==
    /\ pc = "sniffed"
    /\ framing = "raw"
    /\ pc' = "filter_loop"
    /\ result' = "none"
    /\ input' = handed
    /\ counts' = ZeroCounts
    /\ total_matched' = 0
    /\ prev_record' = ZeroRecord
    /\ first_record' = TRUE
    /\ UNCHANGED <<output, source, sniffVars>>
    /\ UNCHANGED <<hit_mask, miss_mask, returned, read_error, first_call>>
    /\ UNCHANGED <<readerVars, chunkVars, boardVars, libVars, genVars>>

\* The filter loop of filter_and_count; the reader the constructor built stays
\* as it is.
FilterAndCountNext ==
    \/ CreateReaderWithCompression
    \/ CreateStdinReader
    \/ CreateReaderWithMagicDetection
    \/ ConstructorFails
    \/ FilterOnReader
    \/ FilterNext

FilterAndCountSpec == FilterAndCountInit /\ [][FilterAndCountNext]_vars

\* C21: an input of 0, 1, 2 or 3 bytes is an empty stream, not an error.  The
\* constructor returns Ok with a raw reader, and when no read fails with an
\* error of the operating system filter_and_count returns Ok with 81 zero
\* counts and matched = 0.
C21_ShortInputIsEmpty ==
    Len(source) < MAGIC_LEN =>
        /\ pc = "sniffed" => (result = "Ok" /\ framing = "raw")
        /\ (pc = "filter_done" /\ read_error = "none") =>
               returned = <<"Ok", ZeroCounts, 0>>

\* filter_and_count has returned for a three-byte file whose bytes the
\* constructed reader still held when the filter started.
C21_Witness ==
    /\ pc = "filter_done"
    /\ Len(source) = MAGIC_LEN - 1
    /\ handed = source
    /\ read_error = "none"
    /\ result = "Ok"

---------------------------------------------------------------------------
(* Board primitives: generator/point.rs, generator/board_mask.rs.          *)
(* A BoardMask is the set of the indices of its set bits.                  *)

\* Option<T>: None is the empty set, Some(x) the set {x}.
None == {}

Some(x) == {x}

Unwrap(option) == CHOOSE x \in option : TRUE

Lengths == {3, 4}

Directions == {"Horizontal", "Vertical"}

\* Point::new
Point(x, y) == [x |-> x, y |-> y]

\* impl Add for Point
PointAdd(p, q) == Point(p.x + q.x, p.y + q.y)

\* impl Sub for Point
PointSub(p, q) == Point(p.x - q.x, p.y - q.y)

\* A Direction scaled like Horizontal, whichever it is.
DirectionMulHorizontalOnly(direction, length) == Point(length, 0)

\* impl Mul<i32> for Direction
DirectionMul(direction, length) ==
    IF direction = "Horizontal" THEN Point(length, 0) ELSE Point(0, length)

CELLS == BOARD_SIZE * BOARD_SIZE

\* BoardMask::FULL
FULL == 0..(CELLS - 1)

\* BoardMask::EMPTY
EMPTY_MASK == {}

\* BoardMask::contains
contains(point) ==
    /\ point.x \in 0..(BOARD_SIZE - 1)
    /\ point.y \in 0..(BOARD_SIZE - 1)

\* An index computed column by column.
index_of_transposed(point) == point.x * BOARD_SIZE + point.y

\* BoardMask::index_of (asserts contains(point))
index_of(point) == point.y * BOARD_SIZE + point.x

\* BoardMask::point_of (asserts index < CELLS)
point_of(index) == Point(index % BOARD_SIZE, index \div BOARD_SIZE)

Points == {point_of(i) : i \in FULL}

\* BoardMask::get
MaskGet(mask, point) == index_of(point) \in mask

\* BoardMask::set
MaskSet(mask, point, value) ==
    IF value THEN mask \cup {index_of(point)} ELSE mask \ {index_of(point)}

\* impl Not for BoardMask: !raw & FULL
MaskNot(mask) == FULL \ mask

\* impl BitAnd for BoardMask: raw & raw
MaskAnd(lhs, rhs) == lhs \cap rhs

\* impl BitOr for BoardMask: raw | raw
MaskOr(lhs, rhs) == lhs \cup rhs

\* impl Shl<usize> for BoardMask: raw << rhs on a u128, for rhs < 128; the
\* bits shifted beyond bit 127 are lost.
MaskShl(mask, rhs) == {i + rhs : i \in mask} \cap (0..(U128_BITS - 1))

\* impl Shr<usize> for BoardMask: raw >> rhs, for rhs < 128.
MaskShr(mask, rhs) == {i - rhs : i \in mask} \cap (0..(U128_BITS - 1))

\* u128::trailing_zeros of a non-zero value
TrailingZeros(mask) == CHOOSE i \in mask : \A j \in mask : i <= j

\* BoardMask::first_set_position
first_set_position(mask) ==
    IF mask = {} THEN None ELSE Some(point_of(TrailingZeros(mask)))

---------------------------------------------------------------------------
(* EXPECTED_ALL_BOARDS_COUNTS and validate_expected_counts (lib.rs).       *)

\* The array with its third entry one too large.
EXPECTED_WITH_TYPO ==
    <<91828984, 81901859, 117097057, 93138304, 90403381, 93138304, 117097056, 81901859, 91828984,
      81901859, 29572998, 54989301, 27344104, 37308200, 27344104, 54989301, 29572998, 81901859,
      117097056, 54989301, 105220336, 70069997, 89165356, 70069997, 105220336, 54989301, 117097056,
      93138304, 27344104, 70069997, 32555654, 56735290, 32555654, 70069997, 27344104, 93138304,
      90403381, 37308200, 89165356, 56735290, 83039340, 56735290, 89165356, 37308200, 90403381,
      93138304, 27344104, 70069997, 32555654, 56735290, 32555654, 70069997, 27344104, 93138304,
      117097056, 54989301, 105220336, 70069997, 89165356, 70069997, 105220336, 54989301, 117097056,
      81901859, 29572998, 54989301, 27344104, 37308200, 27344104, 54989301, 29572998, 81901859,
      91828984, 81901859, 117097056, 93138304, 90403381, 93138304, 117097056, 81901859, 91828984>>

\* pub const EXPECTED_ALL_BOARDS_COUNTS: [u32; 81]
EXPECTED_ALL_BOARDS_COUNTS ==
    <<91828984, 81901859, 117097056, 93138304, 90403381, 93138304, 117097056, 81901859, 91828984,
      81901859, 29572998, 54989301, 27344104, 37308200, 27344104, 54989301, 29572998, 81901859,
      117097056, 54989301, 105220336, 70069997, 89165356, 70069997, 105220336, 54989301, 117097056,
      93138304, 27344104, 70069997, 32555654, 56735290, 32555654, 70069997, 27344104, 93138304,
      90403381, 37308200, 89165356, 56735290, 83039340, 56735290, 89165356, 37308200, 90403381,
      93138304, 27344104, 70069997, 32555654, 56735290, 32555654, 70069997, 27344104, 93138304,
      117097056, 54989301, 105220336, 70069997, 89165356, 70069997, 105220336, 54989301, 117097056,
      81901859, 29572998, 54989301, 27344104, 37308200, 27344104, 54989301, 29572998, 81901859,
      91828984, 81901859, 117097056, 93138304, 90403381, 93138304, 117097056, 81901859, 91828984>>

\* Numbers beyond 32 bits are pairs <<millions, rest>> with rest < 1000000.
Wide(n) == <<n \div 1000000, n % 1000000>>

\* wide + n for a number n of at most 32 bits.
WideAdd(wide, n) ==
    LET rest == wide[2] + (n % 1000000)
    IN  <<wide[1] + (n \div 1000000) + (rest \div 1000000), rest % 1000000>>

\* n * k for a small factor k.
WideTimes(n, k) ==
    LET rest == (n % 1000000) * k
    IN  <<(n \div 1000000) * k + (rest \div 1000000), rest % 1000000>>

\* Arrays handed to validate_expected_counts: the constant itself, copies with
\* one entry changed (as in test_validate_expected_counts), and a short one.
ActualCounts ==
    {EXPECTED_ALL_BOARDS_COUNTS}
        \cup {[EXPECTED_ALL_BOARDS_COUNTS EXCEPT ![k] = @ + 1] :
                 k \in {1, HEATMAP_SIDE, BOARD_BITS \div 2, BOARD_BITS}}
        \cup {SubSeq(EXPECTED_ALL_BOARDS_COUNTS, 1, BOARD_BITS - 1)}

\* validate_expected_counts(actual_counts).  call_args is actual_counts;
\* call_value is <<i, sum>>, the loop index and the sum of the entries compared
\* equal so far (the sum is not a variable of the code).
ValidateInit ==
    /\ pc = "validate"
    /\ result = "none"
    /\ input = <<>> /\ output = <<>> /\ source = <<>>
    /\ call_args \in ActualCounts
    /\ call_value = <<0, Wide(0)>>
    /\ sym_board = {}
    /\ canonical = FALSE
    /\ masks = <<>>
    /\ IdleFilter /\ IdleDelta /\ IdleReader /\ IdleChunk /\ IdleSniff /\ IdleBoard /\ IdleGen

ValidateFrame ==
    /\ UNCHANGED <<ioVars, call_args, sym_board, canonical, masks>>
    /\ UNCHANGED <<filterVars, deltaVars, readerVars, chunkVars, sniffVars, boardVars,
                   genVars>>

\* if actual_counts.len() != 81 { return Err(..) }
WrongLength ==
    /\ pc = "validate"
    /\ Len(call_args) # BOARD_BITS
    /\ pc' = "validated"
    /\ result' = "Err"
    /\ UNCHANGED call_value
    /\ ValidateFrame

\* One iteration of the loop with actual == expected.
EntryMatches ==
    /\ pc = "validate"
    /\ Len(call_args) = BOARD_BITS
    /\ LET i == call_value[1]
       IN  /\ i < BOARD_BITS
           /\ call_args[i + 1] = EXPECTED_ALL_BOARDS_COUNTS[i + 1]
           /\ call_value' = <<i + 1, WideAdd(call_value[2], call_args[i + 1])>>
    /\ UNCHANGED <<pc, result>>
    /\ ValidateFrame

\* if actual != expected { return Err(..) }
EntryDiffers ==
    /\ pc = "validate"
    /\ Len(call_args) = BOARD_BITS
    /\ LET i == call_value[1]
       IN  /\ i < BOARD_BITS
           /\ call_args[i + 1] # EXPECTED_ALL_BOARDS_COUNTS[i + 1]
    /\ pc' = "validated"
    /\ result' = "Err"
    /\ UNCHANGED call_value
    /\ ValidateFrame

\* The loop ends: Ok(())
AllMatch ==
    /\ pc = "validate"
    /\ Len(call_args) = BOARD_BITS
    /\ call_value[1] = BOARD_BITS
    /\ pc' = "validated"
    /\ result' = "Ok"
    /\ UNCHANGED call_value
    /\ ValidateFrame

ValidateNext == WrongLength \/ EntryMatches \/ EntryDiffers \/ AllMatch

ValidateSpec == ValidateInit /\ [][ValidateNext]_vars

\* Entry of a 81-entry heatmap at column x, row y.
HeatAt(heat, x, y) == heat[y * HEATMAP_SIDE + x + 1]

\* The entry at (x, y) equals the entries at the images of (x, y) under the
\* horizontal flip, the vertical flip and the transpose.
SymmetricAt(heat, x, y) ==
    /\ HeatAt(heat, x, y) = HeatAt(heat, HEATMAP_SIDE - 1 - x, y)
    /\ HeatAt(heat, x, y) = HeatAt(heat, x, HEATMAP_SIDE - 1 - y)
    /\ HeatAt(heat, x, y) = HeatAt(heat, y, x)

\* C23: the counts that validate against EXPECTED_ALL_BOARDS_COUNTS are
\* symmetric under the dihedral group of the 9x9 square: each entry compared
\* equals the entries at its images under the horizontal flip, the vertical
\* flip and the transpose; the corner is 91,828,984 and the center 83,039,340.
C23_HeatmapSymmetric ==
    /\ (pc = "validate" /\ Len(call_args) = BOARD_BITS) =>
           LET i == call_value[1]
           IN  i >= 1 =>
                   SymmetricAt(EXPECTED_ALL_BOARDS_COUNTS,
                               (i - 1) % HEATMAP_SIDE, (i - 1) \div HEATMAP_SIDE)
    /\ (pc = "validated" /\ result = "Ok") =>
           /\ HeatAt(call_args, 0, 0) = 91828984
           /\ HeatAt(call_args, HEATMAP_SIDE \div 2, HEATMAP_SIDE \div 2) = 83039340

\* The whole array was validated; the entry compared last is off the diagonals
\* and the axes of the square.
C23_Witness ==
    /\ pc = "validated"
    /\ result = "Ok"
    /\ call_value[1] = BOARD_BITS
    /\ HeatAt(call_args, 1, 0) # HeatAt(call_args, 1, 1)

\* Set cells of a complete board: 3 cells for each of the 5 ships of length 3
\* and 4 for each of the 3 ships of length 4 of BoardState::EMPTY.
BoardCells == 3 * 5 + 4 * 3

\* C30: the sum of the 81 entries of EXPECTED_ALL_BOARDS_COUNTS is
\* 27 * 213,723,152 = 5,770,525,104: the set cells of a board times the
\* number of complete boards of the generator's progress computation.
C30_SumLaw ==
    (pc = "validated" /\ result = "Ok") =>
        /\ call_value[2] = WideTimes(TOTAL_BOARDS, BoardCells)
        /\ call_value[2] = <<5770, 525104>>

\* The array validated has all 81 entries summed.
C30_Witness ==
    /\ pc = "validated"
    /\ result = "Ok"
    /\ call_args = EXPECTED_ALL_BOARDS_COUNTS
    /\ call_value[1] = BOARD_BITS
    /\ call_value[2][1] > 2147

---------------------------------------------------------------------------
(* The operators of BoardMask applied to masks of the board.               *)

\* Masks with only bits of the board set, the corner bits among them.
MaskOperands ==
    {EMPTY_MASK, FULL, {0}, {CELLS - 1}, {0, CELLS - 1}, {1, BOARD_SIZE}}

ShiftAmounts == (0..MaxShift) \cup {BOARD_SIZE, CELLS}

MaskOpInit ==
    /\ pc = "operands"
    /\ result = "none"
    /\ input = <<>> /\ output = <<>> /\ source = <<>>
    /\ call_args \in MaskOperands \X MaskOperands \X ShiftAmounts
    /\ call_value = <<>>
    /\ sym_board = {}
    /\ canonical = FALSE
    /\ masks = <<>>
    /\ IdleFilter /\ IdleDelta /\ IdleReader /\ IdleChunk /\ IdleSniff /\ IdleBoard /\ IdleGen

MaskOpFrame ==
    /\ pc = "operands"
    /\ pc' = "applied"
    /\ UNCHANGED <<result, ioVars, call_args, sym_board, canonical, masks>>
    /\ UNCHANGED <<filterVars, deltaVars, readerVars, chunkVars, sniffVars, boardVars,
                   genVars>>

\* lhs & rhs
BitAnd ==
    /\ call_value' = <<"bitand", MaskAnd(call_args[1], call_args[2])>>
    /\ MaskOpFrame

\* lhs | rhs
BitOr ==
    /\ call_value' = <<"bitor", MaskOr(call_args[1], call_args[2])>>
    /\ MaskOpFrame

\* !lhs
Not ==
    /\ call_value' = <<"not", MaskNot(call_args[1])>>
    /\ MaskOpFrame

\* lhs << n
Shl ==
    /\ call_value' = <<"shl", MaskShl(call_args[1], call_args[3])>>
    /\ MaskOpFrame

\* lhs >> n
Shr ==
    /\ call_value' = <<"shr", MaskShr(call_args[1], call_args[3])>>
    /\ MaskOpFrame

MaskOpNext == BitAnd \/ BitOr \/ Not \/ Shl \/ Shr

MaskOpSpec == MaskOpInit /\ [][MaskOpNext]_vars

\* C22: for operands with only bits of the board set, the results of AND, OR,
\* NOT, shift-left and shift-right have only bits of the board set, and NOT
\* is the complement within the full-board mask.
C22_NoLeakAboveBoard ==
    pc = "applied" =>
        /\ call_value[2] \subseteq FULL
        /\ call_value[1] = "not" => call_value[2] = FULL \ call_args[1]

---------------------------------------------------------------------------
(* BoardMask::index_of and BoardMask::point_of, alone and one after the    *)
(* other.                                                                  *)

\* Points of the board and of the ring of cells around it.
ProbePoints == {Point(x, y) : x \in (-1)..BOARD_SIZE, y \in (-1)..BOARD_SIZE}

\* Indices of the board, and the first one beyond it.
ProbeIndices == 0..CELLS

\* call_args is <<"point", p>> or <<"index", i>>.
IndexInit ==
    /\ pc = "args"
    /\ result = "none"
    /\ input = <<>> /\ output = <<>> /\ source = <<>>
    /\ call_args \in ({"point"} \X ProbePoints) \cup ({"index"} \X ProbeIndices)
    /\ call_value = <<>>
    /\ sym_board = {}
    /\ canonical = FALSE
    /\ masks = <<>>
    /\ IdleFilter /\ IdleDelta /\ IdleReader /\ IdleChunk /\ IdleSniff /\ IdleBoard /\ IdleGen

IndexFrame ==
    /\ UNCHANGED <<ioVars, call_args, sym_board, canonical, masks>>
    /\ UNCHANGED <<filterVars, deltaVars, readerVars, chunkVars, sniffVars, boardVars,
                   genVars>>

\* BoardMask::index_of(p) for a point of the board.
IndexOfPoint ==
    /\ pc = "args"
    /\ call_args[1] = "point"
    /\ contains(call_args[2])
    /\ call_value' = <<"index_of", index_of(call_args[2])>>
    /\ pc' = "index"
    /\ UNCHANGED result
    /\ IndexFrame

\* BoardMask::point_of(i) for an index of the board.
PointOfIndex ==
    /\ pc = "args"
    /\ call_args[1] = "index"
    /\ call_args[2] < CELLS
    /\ call_value' = <<"point_of", point_of(call_args[2])>>
    /\ pc' = "point"
    /\ UNCHANGED result
    /\ IndexFrame

\* assert!(Self::contains(point)) / assert!(index < 81) fails: panic.
AssertFails ==
    /\ pc = "args"
    /\ \/ call_args[1] = "point" /\ ~contains(call_args[2])
       \/ call_args[1] = "index" /\ ~(call_args[2] < CELLS)
    /\ result' = "panic"
    /\ pc' = "panicked"
    /\ UNCHANGED call_value
    /\ IndexFrame

\* BoardMask::point_of(BoardMask::index_of(p)); point_of panics on an index
\* that fails its assert.
PointOfIndexOf ==
    /\ pc = "index"
    /\ IF call_value[2] < CELLS
       THEN /\ call_value' = <<"point_of(index_of)", point_of(call_value[2])>>
            /\ pc' = "round_trip"
            /\ UNCHANGED result
       ELSE /\ call_value' = <<"point_of(index_of)", "panic">>
            /\ pc' = "panicked"
            /\ result' = "panic"
    /\ IndexFrame

\* BoardMask::index_of(BoardMask::point_of(i)); index_of panics on a point
\* that fails its assert.
IndexOfPointOf ==
    /\ pc = "point"
    /\ IF contains(call_value[2])
       THEN /\ call_value' = <<"index_of(point_of)", index_of(call_value[2])>>
            /\ pc' = "round_trip"
            /\ UNCHANGED result
       ELSE /\ call_value' = <<"index_of(point_of)", "panic">>
            /\ pc' = "panicked"
            /\ result' = "panic"
    /\ IndexFrame

IndexNext ==
    \/ IndexOfPoint
    \/ PointOfIndex
    \/ AssertFails
    \/ PointOfIndexOf
    \/ IndexOfPointOf

IndexSpec == IndexInit /\ [][IndexNext]_vars

\* C25: for every point p of the board index_of(p) is y * BOARD_SIZE + x and
\* point_of(index_of(p)) is p; for every index i of the board
\* index_of(point_of(i)) is i; neither round trip panics.
C25_IndexPointInverse ==
    /\ pc = "index" =>
           call_value[2] = call_args[2].y * BOARD_SIZE + call_args[2].x
    /\ pc = "round_trip" => call_value[2] = call_args[2]
    /\ pc = "panicked" =>
           /\ call_value = <<>>
           /\ call_args[1] = "point" => ~contains(call_args[2])
           /\ call_args[1] = "index" => call_args[2] >= CELLS

\* A round trip from a point off the diagonal has returned.
C25_Witness ==
    /\ pc = "round_trip"
    /\ call_value[1] = "point_of(index_of)"
    /\ call_args[2].x # call_args[2].y

---------------------------------------------------------------------------
(* Precomputed placement masks: generator/common_masks.rs.                 *)

\* The points the two nested for loops visit.
Rectangle(start, end) ==
    {Point(x, y) : x \in start.x..end.x, y \in start.y..end.y}

\* A footprint that runs one cell past the ship's length.
generate_mask_for_ship_hit_one_longer(length, starting_point, direction) ==
    LET start == starting_point
        end == PointAdd(starting_point, DirectionMul(direction, length))
        points == Rectangle(start, end)
    IN  IF \A point \in points : contains(point)
        THEN {index_of(point) : point \in points}
        ELSE FULL

\* CommonMasks::generate_mask_for_ship_hit
generate_mask_for_ship_hit(length, starting_point, direction) ==
    LET start == starting_point
        end == PointAdd(starting_point, DirectionMul(direction, length - 1))
        points == Rectangle(start, end)
    IN  IF \A point \in points : contains(point)
        THEN {index_of(point) : point \in points}
        ELSE FULL

\* An outline that leaves out the cells diagonal to the ship's ends.
generate_mask_for_ship_outline_no_corners(length, starting_point, direction) ==
    LET hit == generate_mask_for_ship_hit(length, starting_point, direction)
        near(i, j) ==
            LET p == point_of(i)
                q == point_of(j)
            IN  (p.x = q.x /\ p.y - q.y \in {-1, 1})
                    \/ (p.y = q.y /\ p.x - q.x \in {-1, 1})
    IN  IF hit = FULL THEN FULL
        ELSE {i \in FULL \ hit : \E j \in hit : near(i, j)}

\* A placement that reserves no cell around the ship.
generate_mask_for_ship_outline_none(length, starting_point, direction) ==
    IF generate_mask_for_ship_hit(length, starting_point, direction) = FULL
    THEN FULL
    ELSE EMPTY_MASK

\* An outline that is not cleared of the ship's own cells.
generate_mask_for_ship_outline_with_ship(length, starting_point, direction) ==
    LET start == PointSub(starting_point, Point(1, 1))
        end == PointAdd(PointAdd(starting_point, DirectionMul(direction, length - 1)),
                        Point(1, 1))
        hit == generate_mask_for_ship_hit(length, starting_point, direction)
    IN  IF hit = FULL THEN FULL
        ELSE {index_of(point) : point \in {q \in Rectangle(start, end) : contains(q)}}

\* CommonMasks::generate_mask_for_ship_outline
generate_mask_for_ship_outline(length, starting_point, direction) ==
    LET start == PointSub(starting_point, Point(1, 1))
        end == PointAdd(PointAdd(starting_point, DirectionMul(direction, length - 1)),
                        Point(1, 1))
        hit == generate_mask_for_ship_hit(length, starting_point, direction)
    IN  IF hit = FULL THEN FULL
        ELSE {index_of(point) : point \in {q \in Rectangle(start, end) : contains(q)}}
                 \cap MaskNot(hit)

\* CommonMasks::new: the eight tables, indexed by direction, length and cell.
HitMaskTable ==
    [direction \in Directions |-> [length \in Lengths |-> [index \in FULL |->
        generate_mask_for_ship_hit(length, point_of(index), direction)]]]

OutlineMaskTable ==
    [direction \in Directions |-> [length \in Lengths |-> [index \in FULL |->
        generate_mask_for_ship_outline(length, point_of(index), direction)]]]

\* CommonMasks::mask_for_ship_hit
mask_for_ship_hit(length, starting_point, direction) ==
    HitMaskTable[direction][length][index_of(starting_point)]

\* CommonMasks::mask_for_ship_outline
mask_for_ship_outline(length, starting_point, direction) ==
    OutlineMaskTable[direction][length][index_of(starting_point)]

\* The eight vectors of CommonMasks in the order CommonMasks::new pushes to
\* them, each with the generator and the arguments of its push.
MaskFields ==
    << [name |-> "horizontal_three_long_hit_masks", kind |-> "hit",
        length |-> 3, direction |-> "Horizontal"],
       [name |-> "horizontal_three_long_miss_masks", kind |-> "outline",
        length |-> 3, direction |-> "Horizontal"],
       [name |-> "horizontal_four_long_hit_masks", kind |-> "hit",
        length |-> 4, direction |-> "Horizontal"],
       [name |-> "horizontal_four_long_miss_masks", kind |-> "outline",
        length |-> 4, direction |-> "Horizontal"],
       [name |-> "vertical_three_long_hit_masks", kind |-> "hit",
        length |-> 3, direction |-> "Vertical"],
       [name |-> "vertical_three_long_miss_masks", kind |-> "outline",
        length |-> 3, direction |-> "Vertical"],
       [name |-> "vertical_four_long_hit_masks", kind |-> "hit",
        length |-> 4, direction |-> "Vertical"],
       [name |-> "vertical_four_long_miss_masks", kind |-> "outline",
        length |-> 4, direction |-> "Vertical"] >>

\* let mut masks = CommonMasks { ...: Vec::with_capacity(81), ... }
NewCommonMasks ==
    [name \in {MaskFields[k].name : k \in 1..8} |-> <<>>]

\* The match of CommonMasks::mask_for_ship_hit
HitField(direction, length) ==
    CASE direction = "Horizontal" /\ length = 3 -> "horizontal_three_long_hit_masks"
      [] direction = "Horizontal" /\ length = 4 -> "horizontal_four_long_hit_masks"
      [] direction = "Vertical" /\ length = 3 -> "vertical_three_long_hit_masks"
      [] direction = "Vertical" /\ length = 4 -> "vertical_four_long_hit_masks"

\* The match of CommonMasks::mask_for_ship_outline
OutlineField(direction, length) ==
    CASE direction = "Horizontal" /\ length = 3 -> "horizontal_three_long_miss_masks"
      [] direction = "Horizontal" /\ length = 4 -> "horizontal_four_long_miss_masks"
      [] direction = "Vertical" /\ length = 3 -> "vertical_three_long_miss_masks"
      [] direction = "Vertical" /\ length = 4 -> "vertical_four_long_miss_masks"

MaskInit ==
    /\ pc = "new_masks"
    /\ result = "none"
    /\ input = <<>> /\ output = <<>> /\ source = <<>>
    /\ masks = NewCommonMasks
    /\ sym_board = {}
    /\ canonical = FALSE
    /\ IdleCall
    /\ IdleFilter /\ IdleDelta /\ IdleReader /\ IdleChunk /\ IdleSniff /\ IdleBoard /\ IdleGen

MaskFrame ==
    /\ UNCHANGED <<result, ioVars, sym_board, canonical, callVars>>
    /\ UNCHANGED <<filterVars, deltaVars, readerVars, chunkVars, sniffVars, boardVars,
                   genVars>>

\* The loop index i of CommonMasks::new: the iterations that are complete.
MaskLoopIndex == Len(masks[MaskFields[8].name])

\* The vector the next push of the loop body goes to.
NextMaskField ==
    MaskFields[CHOOSE k \in 1..8 :
                   /\ Len(masks[MaskFields[k].name]) = MaskLoopIndex
                   /\ \A j \in 1..(k - 1) : Len(masks[MaskFields[j].name]) > MaskLoopIndex]

\* One push of the body of `for i in 0..81`.
PushMask ==
    /\ pc = "new_masks"
    /\ MaskLoopIndex < CELLS
    /\ LET field == NextMaskField
           point == point_of(MaskLoopIndex)
           mask == IF field.kind = "hit"
                   THEN generate_mask_for_ship_hit(field.length, point, field.direction)
                   ELSE generate_mask_for_ship_outline(field.length, point, field.direction)
       IN  masks' = [masks EXCEPT ![field.name] = Append(@, mask)]
    /\ UNCHANGED pc
    /\ MaskFrame

\* The loop is over: new returns the tables.
MasksBuilt ==
    /\ pc = "new_masks"
    /\ MaskLoopIndex = CELLS
    /\ pc' = "masks_built"
    /\ UNCHANGED masks
    /\ MaskFrame

MaskNext == PushMask \/ MasksBuilt

\* CommonMasks::new
MaskSpec == MaskInit /\ [][MaskNext]_vars

\* The cells of a ship of the given length from the start cell, on the
\* unbounded grid.
Footprint(length, start, direction) ==
    {IF direction = "Horizontal"
        THEN <<(start % BOARD_SIZE) + k, start \div BOARD_SIZE>>
        ELSE <<start % BOARD_SIZE, (start \div BOARD_SIZE) + k>> : k \in 0..(length - 1)}

InBounds(cell) ==
    /\ 0 <= cell[1] /\ cell[1] < BOARD_SIZE
    /\ 0 <= cell[2] /\ cell[2] < BOARD_SIZE

CellIndex(cell) == cell[2] * BOARD_SIZE + cell[1]

Abs(n) == IF n < 0 THEN -n ELSE n

\* Chebyshev distance of two cells.
Chebyshev(a, b) ==
    IF Abs(a[1] - b[1]) > Abs(a[2] - b[2]) THEN Abs(a[1] - b[1]) ELSE Abs(a[2] - b[2])

\* The reference pair of masks of a placement.
ReferenceHit(length, start, direction) ==
    LET cells == Footprint(length, start, direction)
    IN  IF \A c \in cells : InBounds(c) THEN {CellIndex(c) : c \in cells} ELSE FULL

ReferenceOutline(length, start, direction) ==
    LET cells == Footprint(length, start, direction)
        board_cells == (0..(BOARD_SIZE - 1)) \X (0..(BOARD_SIZE - 1))
    IN  IF \A c \in cells : InBounds(c)
        THEN {CellIndex(c) :
                 c \in {d \in board_cells :
                           /\ d \notin cells
                           /\ \E e \in cells : Chebyshev(d, e) = 1}}
        ELSE FULL

\* C20: for every length, direction and start cell, the precomputed hit mask
\* is the ship's contiguous cells and the outline mask the in-bounds cells at
\* Chebyshev distance 1 from them, none of them a cell of the ship; both are
\* FULL when the ship would leave the board; no ship on the board has the
\* hit mask FULL.
C20_MasksEqualReference ==
    pc = "masks_built" =>
        \A length \in Lengths, direction \in Directions, start \in FULL :
            LET hit == masks[HitField(direction, length)][start + 1]
                outline == masks[OutlineField(direction, length)][start + 1]
                fits == \A c \in Footprint(length, start, direction) : InBounds(c)
            IN  /\ hit = ReferenceHit(length, start, direction)
                /\ outline = ReferenceOutline(length, start, direction)
                /\ fits => (hit # FULL /\ Cardinality(hit) = length
                                /\ hit \cap outline = {})
                /\ ~fits => (hit = FULL /\ outline = FULL)

\* The tables are complete and hold placements that fit, in both directions,
\* and placements that leave the board.
C20_Witness ==
    /\ pc = "masks_built"
    /\ \E start \in FULL : masks[HitField("Horizontal", 4)][start + 1] = FULL
    /\ \E start \in FULL : masks[HitField("Horizontal", 4)][start + 1] # FULL
    /\ \E start \in FULL : masks[HitField("Vertical", 3)][start + 1] # FULL
    /\ \E start \in FULL : Cardinality(masks[OutlineField("Vertical", 3)][start + 1]) = 12

---------------------------------------------------------------------------
(* generator/board_state.rs *)

\* BoardState::EMPTY
EMPTY ==
    [hit_mask |-> EMPTY_MASK, miss_mask |-> EMPTY_MASK,
     three_count_remaining |-> THREE_COUNT, four_count_remaining |-> FOUR_COUNT]

\* BoardState::open_mask
open_mask(state) ==
    (FULL \cap MaskNot(state.hit_mask)) \cap MaskNot(state.miss_mask)

\* BoardState::set
set(state, point, cell) ==
    CASE cell = "Hit" ->
            [state EXCEPT !.hit_mask = MaskSet(@, point, TRUE),
                          !.miss_mask = MaskSet(@, point, FALSE)]
      [] cell = "Miss" ->
            [state EXCEPT !.hit_mask = MaskSet(@, point, FALSE),
                          !.miss_mask = MaskSet(@, point, TRUE)]
      [] cell = "Open" ->
            [state EXCEPT !.hit_mask = MaskSet(@, point, FALSE),
                          !.miss_mask = MaskSet(@, point, FALSE)]

\* The counter the match on length tests and decrements.
CounterOf(state, length) ==
    IF length = 3 THEN state.three_count_remaining ELSE state.four_count_remaining

\* A placement that forgets to mark the outline of the ship.
placing_ship_without_outline(state, length, starting_point, direction) ==
    IF length \notin Lengths \/ CounterOf(state, length) = 0 THEN None
    ELSE LET copy == IF length = 3
                     THEN [state EXCEPT !.three_count_remaining = @ - 1]
                     ELSE [state EXCEPT !.four_count_remaining = @ - 1]
             move_hit_mask == mask_for_ship_hit(length, starting_point, direction)
             move_miss_mask == mask_for_ship_outline(length, starting_point, direction)
         IN  IF (state.hit_mask \cap move_hit_mask) # {} THEN None
             ELSE IF (state.hit_mask \cap move_miss_mask) # {} THEN None
             ELSE Some([copy EXCEPT !.hit_mask = state.hit_mask \cup move_hit_mask])

\* BoardState::placing_ship: None, or Some(the state with the ship placed).
placing_ship(state, length, starting_point, direction) ==
    IF length \notin Lengths \/ CounterOf(state, length) = 0 THEN None
    ELSE LET copy == IF length = 3
                     THEN [state EXCEPT !.three_count_remaining = @ - 1]
                     ELSE [state EXCEPT !.four_count_remaining = @ - 1]
             move_hit_mask == mask_for_ship_hit(length, starting_point, direction)
             move_miss_mask == mask_for_ship_outline(length, starting_point, direction)
         IN  IF (state.hit_mask \cap move_hit_mask) # {} THEN None
             ELSE IF (state.hit_mask \cap move_miss_mask) # {} THEN None
             ELSE Some([copy EXCEPT !.hit_mask = state.hit_mask \cup move_hit_mask,
                                    !.miss_mask = state.miss_mask \cup move_miss_mask])

BoardInit ==
    /\ pc = "board"
    /\ result = "none"
    /\ input = <<>> /\ output = <<>> /\ source = <<>>
    /\ board = EMPTY
    /\ placed = FALSE
    /\ IdleFilter /\ IdleDelta /\ IdleReader /\ IdleChunk /\ IdleSniff /\ IdleLib /\ IdleGen

BoardFrame ==
    /\ UNCHANGED <<pc, result, ioVars>>
    /\ UNCHANGED <<filterVars, deltaVars, readerVars, chunkVars, sniffVars, libVars,
                   genVars>>

\* BoardState::place_ship
PlaceShip(length, starting_point, direction) ==
    /\ pc = "board"
    /\ LET new_state == placing_ship(board, length, starting_point, direction)
       IN  IF new_state # None
           THEN board' = Unwrap(new_state) /\ placed' = TRUE
           ELSE board' = board /\ placed' = FALSE
    /\ BoardFrame

\* board.set(point, CellState::Miss) on the first open cell, as the enumerator
\* does.
MarkFirstOpenMiss ==
    /\ pc = "board"
    /\ open_mask(board) # {}
    /\ board' = set(board, Unwrap(first_set_position(open_mask(board))), "Miss")
    /\ UNCHANGED placed
    /\ BoardFrame

BoardNext ==
    \/ \E length \in Lengths, point \in Points, direction \in Directions :
           PlaceShip(length, point, direction)
    \/ MarkFirstOpenMiss

\* A BoardState under any sequence of place_ship calls and miss marks.
BoardSpec == BoardInit /\ [][BoardNext]_vars

\* Lengths handed to placing_ship: the two ship lengths and one that the
\* match arm `_ => return None` takes.
ProbeLengths == Lengths \cup {2}

\* Starting points handed to place_ship and placing_ship: corners, edges and
\* inner cells, near enough for ships to overlap, to touch and to lie apart,
\* and near enough to the far edges for ships to leave the board.
ProbeStarts ==
    {Point(x, y) : x \in {0, 2, BOARD_SIZE - 1}, y \in {0, 2, BOARD_SIZE - 1}}
        \cup {Point(1, 1)}

\* board.placing_ship(length, starting_point, direction): the board is
\* borrowed (&self), the ship is placed on a copy, and the copy is returned.
PlacingShip(length, starting_point, direction) ==
    /\ pc = "board"
    /\ pc' = "copied"
    /\ call_args' = <<length, starting_point, direction>>
    /\ call_value' = placing_ship(board, length, starting_point, direction)
    /\ UNCHANGED <<board, placed>>
    /\ UNCHANGED <<result, ioVars, sym_board, canonical, masks>>
    /\ UNCHANGED <<filterVars, deltaVars, readerVars, chunkVars, sniffVars, genVars>>

PlacementNext ==
    \/ \E length \in ProbeLengths, point \in ProbeStarts, direction \in Directions :
           PlaceShip(length, point, direction)
    \/ \E length \in ProbeLengths, point \in ProbeStarts, direction \in Directions :
           PlacingShip(length, point, direction)

\* A BoardState under any sequence of place_ship calls, and one call of
\* placing_ship on the board they made.
PlacementSpec == BoardInit /\ [][PlacementNext]_vars

\* child is parent with the ship added: the placement masks are ORed in, the
\* counter of the length is one lower, the other counter is the same.
PlacedOn(parent, child, length, point, direction) ==
    /\ child.hit_mask = parent.hit_mask \cup mask_for_ship_hit(length, point, direction)
    /\ child.miss_mask =
           parent.miss_mask \cup mask_for_ship_outline(length, point, direction)
    /\ IF length = 3
       THEN /\ child.three_count_remaining = parent.three_count_remaining - 1
            /\ child.four_count_remaining = parent.four_count_remaining
       ELSE /\ child.four_count_remaining = parent.four_count_remaining - 1
            /\ child.three_count_remaining = parent.three_count_remaining

\* C26: a successful placement ORs the placement hit mask into hit_mask and
\* the outline mask into miss_mask, lowers the counter of the placed length by
\* one and leaves the other counter; placing_ship never changes the state it
\* is called on, and place_ship leaves the board as it was when it returns
\* false.
C26_PlacementFrame ==
    [][\A length \in ProbeLengths, point \in ProbeStarts, direction \in Directions :
          /\ PlaceShip(length, point, direction) =>
                 IF placed'
                 THEN PlacedOn(board, board', length, point, direction)
                 ELSE board' = board
          /\ PlacingShip(length, point, direction) =>
                 /\ board' = board
                 /\ call_value' # None =>
                        PlacedOn(board, Unwrap(call_value'), length, point, direction)]_vars

\* placing_ship returned a state with a second ship for a board that holds
\* one, and the board holds one still.
C26_Witness ==
    /\ pc = "copied"
    /\ call_value # None
    /\ placed
    /\ board.hit_mask # {}
    /\ Unwrap(call_value).hit_mask # board.hit_mask
    /\ Unwrap(call_value).three_count_remaining + Unwrap(call_value).four_count_remaining
           < board.three_count_remaining + board.four_count_remaining

\* The four conditions of the placement test.
PlacementTest(state, length, point, direction) ==
    /\ CounterOf(state, length) > 0
    /\ mask_for_ship_hit(length, point, direction) # FULL
    /\ state.hit_mask \cap mask_for_ship_hit(length, point, direction) = {}
    /\ state.hit_mask \cap mask_for_ship_outline(length, point, direction) = {}

\* C8: place_ship succeeds exactly when the counter is positive, the placement
\* hit mask is not the FULL sentinel, and the board's hit mask meets neither the
\* placement's hit mask nor its outline.
C8_PlacementTest ==
    [][\A length \in Lengths, point \in Points, direction \in Directions :
          PlaceShip(length, point, direction) =>
              (placed' <=> PlacementTest(board, length, point, direction))]_vars

---------------------------------------------------------------------------
(* generator/symmetries.rs *)

\* a < b for two bitboards as unsigned integers: they differ, and the highest
\* bit in which they differ is set in b.
LessThan(a, b) ==
    /\ a # b
    /\ LET diff == XorMask(a, b)
       IN  (CHOOSE i \in diff : \A j \in diff : j <= i) \in b

\* index(x, y)
index(x, y) == y * BOARD_SIZE + x

\* get_bit(board, x, y)
get_bit(bitboard, x, y) == index(x, y) \in bitboard

\* transform(original, transform_fn), transform_fn given as a function on
\* coordinate pairs.
transform(original, transform_fn) ==
    {index(transform_fn[<<x, y>>][1], transform_fn[<<x, y>>][2]) :
        <<x, y>> \in {c \in (0..(BOARD_SIZE - 1)) \X (0..(BOARD_SIZE - 1)) :
                         get_bit(original, c[1], c[2])}}

Coordinates == (0..(BOARD_SIZE - 1)) \X (0..(BOARD_SIZE - 1))

\* Eight closures that hold the flips and the half turn but no transposition.
TransformFnsNoTranspose ==
    << [c \in Coordinates |-> <<c[1], c[2]>>],
       [c \in Coordinates |-> <<BOARD_SIZE - 1 - c[1], c[2]>>],
       [c \in Coordinates |-> <<c[1], BOARD_SIZE - 1 - c[2]>>],
       [c \in Coordinates |-> <<BOARD_SIZE - 1 - c[1], BOARD_SIZE - 1 - c[2]>>],
       [c \in Coordinates |-> <<c[1], c[2]>>],
       [c \in Coordinates |-> <<BOARD_SIZE - 1 - c[1], c[2]>>],
       [c \in Coordinates |-> <<c[1], BOARD_SIZE - 1 - c[2]>>],
       [c \in Coordinates |-> <<BOARD_SIZE - 1 - c[1], BOARD_SIZE - 1 - c[2]>>] >>

\* The eight closures of generate_symmetries, in its order.
TransformFns ==
    << [c \in Coordinates |-> <<c[1], c[2]>>],
       [c \in Coordinates |-> <<BOARD_SIZE - 1 - c[1], c[2]>>],
       [c \in Coordinates |-> <<c[1], BOARD_SIZE - 1 - c[2]>>],
       [c \in Coordinates |-> <<BOARD_SIZE - 1 - c[1], BOARD_SIZE - 1 - c[2]>>],
       [c \in Coordinates |-> <<c[2], c[1]>>],
       [c \in Coordinates |-> <<BOARD_SIZE - 1 - c[2], c[1]>>],
       [c \in Coordinates |-> <<c[2], BOARD_SIZE - 1 - c[1]>>],
       [c \in Coordinates |-> <<BOARD_SIZE - 1 - c[2], BOARD_SIZE - 1 - c[1]>>] >>

\* generate_symmetries
generate_symmetries(bitboard) ==
    [k \in 1..8 |-> transform(bitboard, TransformFns[k])]

\* is_canonical: board == *symmetries.iter().min().unwrap()
is_canonical(bitboard) ==
    LET symmetries == generate_symmetries(bitboard)
    IN  \A k \in 1..8 : ~LessThan(symmetries[k], bitboard)

\* set_bit(&mut board, x, y)
set_bit(bitboard, x, y) == bitboard \cup {index(x, y)}

SymInit ==
    /\ pc = "build"
    /\ result = "none"
    /\ input = <<>> /\ output = <<>> /\ source = <<>>
    /\ sym_board = {}
    /\ canonical = FALSE
    /\ masks = <<>>
    /\ IdleCall
    /\ IdleFilter /\ IdleDelta /\ IdleReader /\ IdleChunk /\ IdleSniff /\ IdleBoard /\ IdleGen

SymFrame ==
    /\ UNCHANGED <<result, ioVars, masks, callVars>>
    /\ UNCHANGED <<filterVars, deltaVars, readerVars, chunkVars, sniffVars, boardVars,
                   genVars>>

\* One more bit is set in the board.
SetBit ==
    /\ pc \in {"build", "tested"}
    /\ Cardinality(sym_board) < MaxBits
    /\ \E c \in Coordinates :
           /\ ~get_bit(sym_board, c[1], c[2])
           /\ sym_board' = set_bit(sym_board, c[1], c[2])
    /\ pc' = "build"
    /\ canonical' = FALSE
    /\ SymFrame

\* is_canonical(board)
IsCanonical ==
    /\ pc = "build"
    /\ canonical' = is_canonical(sym_board)
    /\ pc' = "tested"
    /\ UNCHANGED sym_board
    /\ SymFrame

SymNext == SetBit \/ IsCanonical

\* is_canonical on the bitboards of up to MaxBits set bits.
SymSpec == SymInit /\ [][SymNext]_vars

\* The quarter turn and the mirror image of a bitmap of the square board, as
\* maps of the plane: (x, y) goes to (N - 1 - y, x), and to (N - 1 - x, y).
QuarterTurn(b) ==
    {((i % BOARD_SIZE) * BOARD_SIZE) + (BOARD_SIZE - 1 - (i \div BOARD_SIZE)) : i \in b}

Mirror(b) ==
    {((i \div BOARD_SIZE) * BOARD_SIZE) + (BOARD_SIZE - 1 - (i % BOARD_SIZE)) : i \in b}

\* The images of a bitmap under the dihedral group of the square: the four
\* rotations of the bitmap and of its mirror image.
Orbit(b) ==
    LET turns(c) == {c, QuarterTurn(c), QuarterTurn(QuarterTurn(c)),
                     QuarterTurn(QuarterTurn(QuarterTurn(c)))}
    IN  turns(b) \cup turns(Mirror(b))

\* The number whose binary digits lo..hi are those of the bitmap.
DigitsValue(b, lo, hi) ==
    SumBits([k \in 0..(hi - lo) |-> IF (lo + k) \in b THEN 1 ELSE 0], hi - lo + 1)

\* a <= b as numbers, compared by their high and low halves.
NumericLeq(a, b) ==
    LET half == CELLS \div 2
        ah == DigitsValue(a, half, CELLS - 1)
        bh == DigitsValue(b, half, CELLS - 1)
        al == DigitsValue(a, 0, half - 1)
        bl == DigitsValue(b, 0, half - 1)
    IN  ah < bh \/ (ah = bh /\ al <= bl)

OrbitMinimum(b) == \A c \in Orbit(b) : NumericLeq(b, c)

\* C18: is_canonical(b) is true exactly when b is the numerical minimum of
\* its images under the dihedral group of the square (a bitmap that some
\* group element fixes included).
C18_CanonicalIsOrbitMinimum ==
    pc = "tested" => (canonical <=> OrbitMinimum(sym_board))

\* A bitmap of several cells that a group element other than the identity
\* fixes was tested and found canonical.
C18_Witness ==
    /\ pc = "tested"
    /\ canonical
    /\ Cardinality(sym_board) >= 2
    /\ Mirror(sym_board) = sym_board
    /\ QuarterTurn(sym_board) # sym_board

---------------------------------------------------------------------------
(* bin/generator.rs: write_all_valid_boards and count_of_valid_endings.    *)

\* The (length, direction) of the four placement attempts, in their order.
Attempts == << <<3, "Horizontal">>, <<3, "Vertical">>,
               <<4, "Horizontal">>, <<4, "Vertical">> >>

\* An invocation of count_of_valid_endings: its state argument, the number
\* of children it has dealt with, and its local valid.
Frame(state) == [state |-> state, child |-> 0, valid |-> 0]

Top == stack[Len(stack)]

\* if let Some(point) = state.open_mask().first_set_position()
HasOpen(frame) == first_set_position(open_mask(frame.state)) # None

OpenPoint(frame) == Unwrap(first_set_position(open_mask(frame.state)))

\* A callback that buffers every board, canonical or not.
DataAfterBoardAll(d, state) == d \o to_le_bytes(state.hit_mask)

\* if data.len() >= 4096 { writer.write_all(&data); data.clear(); }
DataAfterFlush(d) == IF Len(d) >= FLUSH_LEN THEN <<>> ELSE d

WrittenAfterFlush(out, d) == IF Len(d) >= FLUSH_LEN THEN out \o d ELSE out

\* if is_canonical_board { data.extend_from_slice(&raw.to_le_bytes()) }
DataAfterBoard(d, state) ==
    IF is_canonical(state.hit_mask) THEN d \o to_le_bytes(state.hit_mask) ELSE d

GenInit ==
    /\ pc = "enumerate"
    /\ result = "none"
    /\ input = <<>> /\ output = <<>> /\ source = <<>>
    /\ stack = <<Frame(EMPTY)>>
    /\ data = <<>>
    /\ written = 0
    /\ saved = <<>>
    /\ total_valid_count = 0
    /\ IdleFilter /\ IdleDelta /\ IdleReader /\ IdleChunk /\ IdleSniff /\ IdleBoard
    /\ IdleLib

GenFrame ==
    /\ UNCHANGED <<result, input, source>>
    /\ UNCHANGED <<filterVars, deltaVars, readerVars, chunkVars, sniffVars, boardVars,
                   libVars>>

\* The stack with its top frame moved on to its next child.
Advanced == [stack EXCEPT ![Len(stack)].child = @ + 1]

\* The innermost invocation returns v to its caller.
Return(v) ==
    IF Len(stack) = 1
    THEN /\ stack' = <<>>
         /\ total_valid_count' = v
         /\ pc' = "enumerated"
    ELSE /\ stack' = [SubSeq(stack, 1, Len(stack) - 1)
                          EXCEPT ![Len(stack) - 1].valid = @ + v]
         /\ UNCHANGED <<total_valid_count, pc>>

\* placing_ship returned Some(placed_state): recurse into it.
PlaceAndRecurse ==
    /\ pc = "enumerate"
    /\ HasOpen(Top)
    /\ Top.child \in 0..3
    /\ LET attempt == Attempts[Top.child + 1]
           placed_state == placing_ship(Top.state, attempt[1], OpenPoint(Top), attempt[2])
       IN  /\ placed_state # None
           /\ stack' = Append(Advanced, Frame(Unwrap(placed_state)))
    /\ UNCHANGED <<pc, output, data, written, saved, total_valid_count>>
    /\ GenFrame

\* placing_ship returned None: go on to the next attempt.
PlaceRejected ==
    /\ pc = "enumerate"
    /\ HasOpen(Top)
    /\ Top.child \in 0..3
    /\ LET attempt == Attempts[Top.child + 1]
       IN  placing_ship(Top.state, attempt[1], OpenPoint(Top), attempt[2]) = None
    /\ stack' = Advanced
    /\ UNCHANGED <<pc, output, data, written, saved, total_valid_count>>
    /\ GenFrame

\* unplaced_state.set(point, CellState::Miss), and recurse into it.
MarkMissAndRecurse ==
    /\ pc = "enumerate"
    /\ HasOpen(Top)
    /\ Top.child = 4
    /\ stack' = Append(Advanced, Frame(set(Top.state, OpenPoint(Top), "Miss")))
    /\ UNCHANGED <<pc, output, data, written, saved, total_valid_count>>
    /\ GenFrame

\* All five children are done: return valid.
ReturnValid ==
    /\ pc = "enumerate"
    /\ HasOpen(Top)
    /\ Top.child = 5
    /\ Return(Top.valid)
    /\ UNCHANGED <<output, data, written, saved>>
    /\ GenFrame

\* No open cell and both counters zero: save_board(state), return 1.  The
\* callback is the closure of write_all_valid_boards.
SaveBoard ==
    /\ pc = "enumerate"
    /\ ~HasOpen(Top)
    /\ Top.state.three_count_remaining = 0
    /\ Top.state.four_count_remaining = 0
    /\ written' = written + 1
    /\ saved' = Append(saved, Top.state.hit_mask)
    /\ LET extended == DataAfterBoard(data, Top.state)
       IN  /\ output' = WrittenAfterFlush(output, extended)
           /\ data' = DataAfterFlush(extended)
    /\ Return(1)
    /\ GenFrame

\* No open cell, a ship still unplaced: return 0.
DeadEnd ==
    /\ pc = "enumerate"
    /\ ~HasOpen(Top)
    /\ ~(Top.state.three_count_remaining = 0 /\ Top.state.four_count_remaining = 0)
    /\ Return(0)
    /\ UNCHANGED <<output, data, written, saved>>
    /\ GenFrame

\* write_all_valid_boards after the enumeration: write what the buffer holds.
FinalWrite ==
    /\ pc = "enumerated"
    /\ pc' = "generated"
    /\ output' = IF data # <<>> THEN output \o data ELSE output
    /\ UNCHANGED <<stack, data, written, saved, total_valid_count>>
    /\ GenFrame

GenNext ==
    \/ PlaceAndRecurse
    \/ PlaceRejected
    \/ MarkMissAndRecurse
    \/ ReturnValid
    \/ SaveBoard
    \/ DeadEnd
    \/ FinalWrite

\* write_all_valid_boards run from BoardState::EMPTY.
GenSpec == GenInit /\ [][GenNext]_vars

---------------------------------------------------------------------------
(* Properties of the enumeration. *)

\* C2: within one run, no two invocations of the callback receive the same
\* hit mask: the mask an invocation receives was received by none before it.
C2_NoLayoutTwice ==
    [][saved' # saved =>
          \A i \in 1..Len(saved) : saved[i] # saved'[Len(saved')]]_vars

\* The run is over and the callback was invoked for several boards.
C2_Witness == pc = "generated" /\ Len(saved) >= 2

\* The legal fleet layouts, built from the rules of the game alone.  A ship is
\* the set of the cells it covers.
ShipCells(length, x, y, direction) ==
    IF direction = "Horizontal"
    THEN {<<x + k, y>> : k \in 0..(length - 1)}
    ELSE {<<x, y + k>> : k \in 0..(length - 1)}

ShipsOfLength(length) ==
    {ship \in {ShipCells(length, c[1], c[2], d) : c \in Coordinates, d \in Directions} :
        ship \subseteq Coordinates}

\* Two ships overlap or touch, orthogonally or diagonally.
Touch(ship1, ship2) ==
    \E a \in ship1, b \in ship2 :
        /\ a[1] - b[1] \in {-1, 0, 1}
        /\ a[2] - b[2] \in {-1, 0, 1}

\* The fleets in `fleets`, each with n more ships out of `ships`.
RECURSIVE WithShips(_, _, _)
WithShips(fleets, ships, n) ==
    IF n = 0 THEN fleets
    ELSE WithShips(
             UNION {{fleet \cup {ship} :
                        ship \in {t \in ships : \A u \in fleet : ~Touch(t, u)}} :
                    fleet \in fleets},
             ships, n - 1)

LegalFleets ==
    WithShips(WithShips({{}}, ShipsOfLength(3), THREE_COUNT),
              ShipsOfLength(4), FOUR_COUNT)

\* The occupancy bitmap of a fleet.
Occupancy(fleet) == {c[2] * BOARD_SIZE + c[1] : c \in UNION fleet}

LegalLayouts == {Occupancy(fleet) : fleet \in LegalFleets}

\* C3: when the enumeration is over, the hit masks the callback received are
\* exactly the occupancy bitmaps of the legal fleet layouts.
C3_Exhaustive ==
    pc = "generated" => {saved[i] : i \in 1..Len(saved)} = LegalLayouts

\* The run is over and there were several legal layouts to find.
C3_Witness ==
    /\ pc = "generated"
    /\ Cardinality(LegalLayouts) >= 2
    /\ Len(saved) >= 2

\* The invariants of the data model for one board state.
StateInvariant(state) ==
    /\ state.hit_mask \cap state.miss_mask = {}
    /\ state.hit_mask \subseteq FULL
    /\ state.miss_mask \subseteq FULL
    /\ state.three_count_remaining \in 0..THREE_COUNT
    /\ state.four_count_remaining \in 0..FOUR_COUNT

\* C9: every board state count_of_valid_endings is invoked on has disjoint hit
\* and miss masks within the board and counters within the fleet.
C9_StateInvariants ==
    \A k \in 1..Len(stack) : StateInvariant(stack[k].state)

\* The 16-byte images of the canonical boards among masks[lo..hi], in order.
RECURSIVE ImagesBetween(_, _, _)
ImagesBetween(boards, lo, hi) ==
    IF lo > hi THEN <<>>
    ELSE IF lo = hi
    THEN (IF is_canonical(boards[lo]) THEN to_le_bytes(boards[lo]) ELSE <<>>)
    ELSE LET mid == (lo + hi) \div 2
         IN  ImagesBetween(boards, lo, mid) \o ImagesBetween(boards, mid + 1, hi)

CanonicalImages(boards) == ImagesBetween(boards, 1, Len(boards))

\* C10: when write_all_valid_boards is over, the bytes written are the
\* little-endian images of the canonical boards the callback received, in
\* callback order and each once, and the returned total counts every complete
\* board, canonical or not.
C10_FileIsCanonicalBoards ==
    pc = "generated" =>
        /\ output = CanonicalImages(saved)
        /\ total_valid_count = Len(saved)

\* The run is over, the buffer was written out before the end, and a board
\* that is not canonical was counted.
C10_Witness ==
    /\ pc = "generated"
    /\ Len(output) > Len(data) + FLUSH_LEN
    /\ \E i \in 1..Len(saved) : ~is_canonical(saved[i])
    /\ \E i \in 1..Len(saved) : is_canonical(saved[i])

\* Cells a complete fleet covers (5 * 3 + 3 * 4 = 27 for the program's fleet).
FleetCells == 3 * THREE_COUNT + 4 * FOUR_COUNT

\* The hit mask of the latest callback invocation.  saved only grows by
\* appending, so every mask the callback receives is the latest one in the
\* state that follows its invocation.
LastSaved == saved[Len(saved)]

\* C11: every hit mask passed to the callback has exactly as many bits set as
\* the fleet has cells (three per length-3 ship, four per length-4 ship), all
\* of them within the bits of the board.
C11_HitMaskPopcount ==
    saved # <<>> =>
        /\ Cardinality(LastSaved) = FleetCells
        /\ LastSaved \subseteq FULL

\* The callback has been invoked, the last time for a board whose ships are not
\* all in one direction.
C11_Witness ==
    /\ Len(saved) >= 2
    /\ \E i \in LastSaved : i + 1 \in LastSaved
    /\ \E i \in LastSaved : i + BOARD_SIZE \in LastSaved

\* The maximal horizontal run of set cells of b through its cell i.
HorizontalRun(b, i) ==
    {j \in b : /\ j \div BOARD_SIZE = i \div BOARD_SIZE
                /\ (IF i <= j THEN i..j ELSE j..i) \subseteq b}

\* The maximal vertical run of set cells of b through its cell i.
VerticalRun(b, i) ==
    {j \in b : /\ j % BOARD_SIZE = i % BOARD_SIZE
                /\ LET lo == IF i <= j THEN i ELSE j
                       hi == IF i <= j THEN j ELSE i
                   IN  \A s \in 0..((hi - lo) \div BOARD_SIZE) :
                           lo + BOARD_SIZE * s \in b}

\* Two cells that touch at a corner only.
DiagonallyAdjacent(i, j) ==
    /\ (i % BOARD_SIZE) - (j % BOARD_SIZE) \in {-1, 1}
    /\ (i \div BOARD_SIZE) - (j \div BOARD_SIZE) \in {-1, 1}

\* The innermost invocation is about to call save_board(state): no open cell
\* and both counters zero.
AtCallback ==
    /\ pc = "enumerate"
    /\ ~HasOpen(Top)
    /\ Top.state.three_count_remaining = 0
    /\ Top.state.four_count_remaining = 0

\* Every set cell lies on one straight run of 3 or 4 cells and has no set
\* neighbour outside that run.
ShipsApart(b) ==
    /\ \A i \in b, j \in b : ~DiagonallyAdjacent(i, j)
    /\ \A i \in b :
           LET h == Cardinality(HorizontalRun(b, i))
               v == Cardinality(VerticalRun(b, i))
           IN  (h = 1 /\ v \in Lengths) \/ (v = 1 /\ h \in Lengths)

\* C12: in every hit mask the callback is invoked with, set cells that are
\* orthogonally or diagonally adjacent belong to one straight horizontal or
\* vertical run, and every such run has exactly 3 or 4 cells: ships never
\* touch, not even at corners.
C12_ShipsNeverTouch == AtCallback => ShipsApart(Top.state.hit_mask)

\* The callback received a board on which a ship lies on the row or column
\* next but one to another ship's, as close as the rule allows.
C12_Witness ==
    /\ saved # <<>>
    /\ \E i \in LastSaved, j \in LastSaved :
           /\ j \notin HorizontalRun(LastSaved, i) \cup VerticalRun(LastSaved, i)
           /\ (i % BOARD_SIZE) - (j % BOARD_SIZE) \in {-2, 2}
               \/ (i \div BOARD_SIZE) - (j \div BOARD_SIZE) \in {-2, 2}
           /\ (i % BOARD_SIZE) - (j % BOARD_SIZE) \in -2..2
           /\ (i \div BOARD_SIZE) - (j \div BOARD_SIZE) \in -2..2


\* C24: during the enumeration from BoardState::EMPTY the number of
\* simultaneously active (nested) invocations of count_of_valid_endings never
\* exceeds the number of cells of the board (81 on the 9x9 board).
C24_DepthAtMostCells == Len(stack) <= CELLS


\* C27: when write_all_valid_boards is over, the file holds one representative
\* of every symmetry class: the set of complete boards is closed under the 8
\* transforms of the square, no record is on file twice, the records are the
\* minima of the orbits of the complete boards, so that every complete board
\* has exactly one image on file, and the number of records lies between an
\* eighth of the total and the total.
C27_OneRecordPerClass ==
    pc = "generated" =>
        LET complete == {saved[i] : i \in 1..Len(saved)}
            records == RecordsOf(output)
            on_file == {records[k] : k \in 1..Len(records)}
        IN  /\ \A b \in complete : Orbit(b) \subseteq complete
            /\ Cardinality(on_file) = Len(records)
            /\ on_file = {b \in complete : OrbitMinimum(b)}
            /\ \A b \in complete : Cardinality(Orbit(b) \cap on_file) = 1
            /\ Len(saved) <= 8 * Len(records)
            /\ Len(records) <= Len(saved)

\* The run is over; there are classes of 8 boards, and the file has several
\* records but fewer than there are complete boards.
C27_Witness ==
    /\ pc = "generated"
    /\ \E i \in 1..Len(saved) : Cardinality(Orbit(saved[i])) = 8
    /\ WholeRecords(output) >= 2
    /\ WholeRecords(output) < Len(saved)


\* C28: every board state the callback is invoked with is fully decided and
\* consistent: hit_mask | miss_mask is FULL, hit_mask & miss_mask is 0, both
\* ship counters are zero, and hit_mask is not the FULL sentinel that an
\* out-of-bounds placement leaves.
C28_CallbackStateDecided ==
    AtCallback =>
        LET state == Top.state
        IN  /\ state.hit_mask \cup state.miss_mask = FULL
            /\ state.hit_mask \cap state.miss_mask = {}
            /\ state.three_count_remaining = 0
            /\ state.four_count_remaining = 0
            /\ state.hit_mask # FULL

\* The callback is about to be invoked, not for the first time, with a board
\* that has a miss cell next to no ship, marked by the enumerator itself.
C28_Witness ==
    /\ AtCallback
    /\ written >= 1
    /\ \E i \in Top.state.miss_mask :
           \A j \in Top.state.hit_mask :
               \/ (i % BOARD_SIZE) - (j % BOARD_SIZE) \notin -1..1
               \/ (i \div BOARD_SIZE) - (j \div BOARD_SIZE) \notin -1..1


---------------------------------------------------------------------------
(* The magic sniff on an uncompressed file of boards of the 9x9 board.     *)

\* The bits of the four bytes 28 B5 2F FD read as the low 32 bits of a
\* little-endian u128.
MagicBits ==
    {i \in 0..(8 * MAGIC_LEN - 1) : BitOf(ZSTD_MAGIC[(i \div 8) + 1], i % 8) = 1}

\* Cells above the low 32 bits that a board may or may not have set.
UpperCells == {32, 33, 39, 40, 41, 80}

\* Masks of the 9x9 board whose low 32 bits are the magic.
MagicBoards == {MagicBits \cup upper : upper \in SUBSET UpperCells}

\* Complete boards of the 9x9 board: five ships of length 3 and three of
\* length 4 that do not touch.  The first has a ship on the cells 0, 1, 2.
SampleBoards ==
    {{0, 1, 2, 33, 34, 35, 36, 38, 40, 45, 47, 49, 51, 53, 54, 56, 58, 60, 62,
      69, 71, 72, 73, 74, 75, 78, 80},
     {5, 6, 7, 9, 10, 11, 12, 23, 27, 28, 29, 32, 41, 45, 50, 53, 54, 56, 62,
      63, 65, 67, 68, 69, 71, 74, 80},
     {6, 7, 8, 9, 10, 11, 12, 24, 25, 26, 36, 37, 38, 39, 42, 44, 51, 53, 56,
      57, 58, 60, 62, 75, 76, 77, 78},
     {10, 11, 12, 13, 15, 16, 17, 27, 35, 36, 39, 40, 41, 42, 44, 45, 53, 54,
      57, 58, 59, 73, 74, 75, 78, 79, 80},
     {6, 11, 13, 15, 17, 20, 22, 24, 26, 27, 29, 31, 35, 36, 38, 45, 49, 50,
      51, 52, 54, 65, 66, 67, 78, 79, 80}}

\* The file is one record, or one record and a second one.
FirstRecordFiles ==
    {to_le_bytes(b) : b \in MagicBoards \cup SampleBoards}
        \cup {to_le_bytes(b) \o to_le_bytes({}) : b \in SampleBoards}

\* A reader constructor on an uncompressed file of boards.
FirstRecordInit ==
    /\ pc = "sniff"
    /\ result = "none"
    /\ source \in FirstRecordFiles
    /\ input = source
    /\ output = <<>>
    /\ constructor \in Constructors
    /\ handed = <<>>
    /\ framing = "none"
    /\ IdleFilter /\ IdleDelta /\ IdleReader /\ IdleChunk /\ IdleBoard /\ IdleLib /\ IdleGen

FirstRecordSpec == FirstRecordInit /\ [][SniffNext]_vars

\* The maximal horizontal and vertical runs of set cells of b through its cell
\* i, on a board of the given side.
HorizontalRunOn(side, b, i) ==
    {j \in b : /\ j \div side = i \div side
                /\ (IF i <= j THEN i..j ELSE j..i) \subseteq b}

VerticalRunOn(side, b, i) ==
    {j \in b : /\ j % side = i % side
                /\ LET lo == IF i <= j THEN i ELSE j
                       hi == IF i <= j THEN j ELSE i
                   IN  \A k \in 0..((hi - lo) \div side) : lo + side * k \in b}

\* The rule of the fleet on a board of the given side: every set cell lies on
\* one straight run of 3 or 4 cells, and no two set cells touch at a corner.
ShipsApartOn(side, b) ==
    /\ b \subseteq 0..(side * side - 1)
    /\ \A i \in b, j \in b :
           ~(/\ (i % side) - (j % side) \in {-1, 1}
             /\ (i \div side) - (j \div side) \in {-1, 1})
    /\ \A i \in b :
           LET h == Cardinality(HorizontalRunOn(side, b, i))
               v == Cardinality(VerticalRunOn(side, b, i))
           IN  (h = 1 /\ v \in Lengths) \/ (v = 1 /\ h \in Lengths)

\* The board of the first record of the file.
FirstBoard == from_le_bytes(RecordAt(source, 1))

\* C29: a board whose 16-byte little-endian image begins with the zstd magic
\* 28 B5 2F FD breaks the rule of the fleet that every enumerated board obeys
\* (C12), so that no enumerated board has such an image; and an uncompressed
\* file whose first record obeys the rule is never classified as zstd.
C29_BoardsNeverLookLikeZstd ==
    /\ SubSeq(source, 1, MAGIC_LEN) = ZSTD_MAGIC =>
           ~ShipsApartOn(RECORD_BOARD_SIDE, FirstBoard)
    /\ (pc = "sniffed" /\ ShipsApartOn(RECORD_BOARD_SIDE, FirstBoard)) =>
           framing = "raw"

\* A file of two records whose first is a complete board went through the
\* sniff of a constructor that reads the magic and chains it back.
C29_Witness ==
    /\ pc = "sniffed"
    /\ framing = "raw"
    /\ constructor = "create_reader_with_magic_detection"
    /\ ShipsApartOn(RECORD_BOARD_SIDE, FirstBoard)
    /\ Cardinality(FirstBoard) = BoardCells
    /\ WholeRecords(source) = 2

=============================================================================
